---- MODULE Spec2Model ----
(***************************************************************************)
(* Release graph, policy pipeline, graph-fetch and phased-rollout plugins  *)
(* of cincinnati, and the node cache of graph-data-util.                   *)
(*                                                                         *)
(* Seven specifications share this module:                                 *)
(*   SpecGraph : one Graph instance under add_release / add_edge /         *)
(*               remove_releases / next_releases                           *)
(*   SpecPipe  : AppSettings::policy_plugins and pipeline runs             *)
(*   SpecFetch : CincinnatiGraphFetchPlugin::run_internal, several runs    *)
(*               of one plugin instance interleaved                        *)
(*   SpecRollout : PhasedRolloutPlugin::run_internal against one state of  *)
(*               the metrics source                                        *)
(*   SpecFilter : filter_by_failure_ratio called on its own                *)
(*   SpecShared : several requests running one pipeline concurrently       *)
(*   SpecPersistence : one Persistence under update_with calls             *)
(***************************************************************************)
EXTENDS Integers, Sequences, FiniteSets, TLC

(***************************************************************************)
(* Bounds                                                                  *)
(***************************************************************************)
\* number of add_release calls on one graph instance
MaxIds == 2
\* number of edges stored in one graph instance
MaxEdges == 2
\* number of run_internal calls on one graph-fetch plugin instance
MaxRuns == 2
\* length of the configured list of policy plugins
MaxPolicies == 2
\* number of requests run through the pipeline
MaxRequests == 1
\* number of entries in the result of a metrics query
MaxEntries == 2
\* number of queries the metrics source answers
MaxQueries == 2
\* number of releases in a graph handed to filter_by_failure_ratio
MaxReleases == 2
\* number of update_with calls on one Persistence
MaxUpdates == 2

VARIABLES
    \* ---- Graph instance
    releases,   \* ReleaseId -> Release, the nodes currently present
    edges,      \* set of <<from, to>> ReleaseId pairs
    next_id,    \* the next ReleaseId add_release hands out
    issued,     \* history: every ReleaseId this instance has handed out
    ret,        \* the last Graph call: its name, arguments and return value
    \* ---- CincinnatiGraphFetchPlugin instance and its runs
    upstream,                    \* the plugin's upstream URL
    http_upstream_reqs,          \* Counter http_upstream_requests_total
    http_upstream_errors_total,  \* Counter http_upstream_errors_total
    pc,         \* run -> "idle" | "requesting" | "reading" | "done"
    io,         \* run -> the InternalIO the run was called with
    resp,       \* run -> what the HTTP client got: a transport error or a status
    body,       \* run -> what reading the response body gave
    result,     \* run -> the value the run's future resolved to
    \* ---- AppSettings, the pipeline built from it and the requests run through it
    policies,   \* AppSettings.policies: the configured plugin settings, in order
    registry,   \* AppSettings.registry: the counter names registered
    pipeline,   \* what policy_plugins returned: Ok(plugins) or Err
    rq,         \* request -> its run of the pipeline
    \* ---- PhasedRolloutPlugin, its metrics source and its last call
    telemetry,  \* what the metrics source answers to the plugin's query
    queries,    \* number of queries the metrics source has received
    rollout_in, \* the InternalIO (or the graph) of the last call
    threshold,  \* the failure_ratio_threshold of the last filter call
    version_failure_ratios,  \* the map printed at line 48 of the last run
    removed,    \* the count filter_by_failure_ratio returned last
    rollout_out, \* what the last call returned, or that it panicked
    \* ---- Persistence of the node cache and its last update_with call
    mode,       \* Persistence.mode: the DownloadMode it was constructed with
    cache,      \* Persistence.cache: manifestref -> Option<Release>
    directory,  \* the files under Persistence.directory: <<algo, hash>> -> content
    unwritable, \* the files under Persistence.directory that cannot be opened
    updates,    \* number of update_with calls made
    updated     \* the last update_with call: its argument, the state it found
                \* and what it returned

graphVars == <<releases, edges, next_id, issued, ret>>

fetchVars == <<upstream, http_upstream_reqs, http_upstream_errors_total,
               pc, io, resp, body, result>>

pipeVars == <<policies, registry, pipeline, rq>>

rolloutVars == <<telemetry, queries, rollout_in, threshold, version_failure_ratios,
                 removed, rollout_out>>

persistenceVars == <<mode, cache, directory, unwritable, updates, updated>>

\* What an operation of one component leaves alone: the other components.
notGraphVars == <<fetchVars, pipeVars, rolloutVars, persistenceVars>>

notFetchVars == <<graphVars, pipeVars, rolloutVars, persistenceVars>>

notPipeVars == <<graphVars, fetchVars, rolloutVars, persistenceVars>>

notRolloutVars == <<graphVars, fetchVars, pipeVars, persistenceVars>>

notPersistenceVars == <<graphVars, fetchVars, pipeVars, rolloutVars>>

vars == <<releases, edges, next_id, issued, ret,
          upstream, http_upstream_reqs, http_upstream_errors_total,
          pc, io, resp, body, result,
          policies, registry, pipeline, rq,
          telemetry, queries, rollout_in, threshold, version_failure_ratios,
          removed, rollout_out,
          mode, cache, directory, unwritable, updates, updated>>

(***************************************************************************)
(* Release: Concrete (version, payload, metadata) or Abstract (version).   *)
(***************************************************************************)
NoMetadata == <<>>

Concrete(version, metadata) ==
    [kind |-> "Concrete", version |-> version, metadata |-> metadata]

Abstract(version) ==
    [kind |-> "Abstract", version |-> version, metadata |-> NoMetadata]

\* The releases add_release is called with: one of each variant.
NewReleases == {Concrete("4.0.0-0.1", NoMetadata), Abstract("4.0.0-0.2")}

\* ReleaseIds a caller may pass: every id the instance can hand out, and one
\* it never does.
IdArgs == 0 .. MaxIds

NoCall == [op |-> "none"]

Nodes == DOMAIN releases

Min(S) == CHOOSE x \in S : \A y \in S : x <= y

(***************************************************************************)
(* Graph                                                                   *)
(***************************************************************************)
InitGraph ==
    /\ releases = <<>>
    /\ edges = {}
    /\ next_id = 0
    /\ issued = {}
    /\ ret = NoCall

\* A slot allocator that hands out the lowest id not in use.
FreshIdLowestFree(rels, next) == Min((0 .. next) \ DOMAIN rels)

\* The handle of a new node: ids count up and are never handed out twice.
FreshId(rels, next) == next

\* add_release(release) -> ReleaseId; no duplicate detection.
add_release(release) ==
    /\ next_id < MaxIds
    /\ LET id == FreshId(releases, next_id) IN
        /\ releases' = [i \in Nodes \cup {id} |-> IF i = id THEN release ELSE releases[i]]
        /\ next_id' = next_id + 1
        /\ issued' = issued \cup {id}
        /\ ret' = [op |-> "add_release", release |-> release, id |-> id]
    /\ UNCHANGED <<edges, notGraphVars>>

\* add_edge checking its source endpoint only.
AddEdgeResultFromOnly(rels, es, from, to) ==
    IF from \in DOMAIN rels
    THEN [status |-> "Ok", edges |-> es \cup {<<from, to>>}]
    ELSE [status |-> "InvalidEdge", edges |-> es]

\* The result of add_edge: InvalidEdge when an endpoint is missing.
AddEdgeResult(rels, es, from, to) ==
    IF from \in DOMAIN rels /\ to \in DOMAIN rels
    THEN [status |-> "Ok", edges |-> es \cup {<<from, to>>}]
    ELSE [status |-> "InvalidEdge", edges |-> es]

\* add_edge(from, to) -> Result
add_edge(from, to) ==
    LET r == AddEdgeResult(releases, edges, from, to) IN
    /\ Cardinality(r.edges) <= MaxEdges
    /\ edges' = r.edges
    /\ ret' = [op |-> "add_edge", from |-> from, to |-> to, status |-> r.status]
    /\ UNCHANGED <<releases, next_id, issued, notGraphVars>>

\* Removing a node and leaving its edges in place.
RemoveNodeKeepEdges(g, id) ==
    [releases |-> [i \in DOMAIN g.releases \ {id} |-> g.releases[i]],
     edges    |-> g.edges,
     count    |-> g.count + 1]

\* Removing one node removes it and every edge touching it.
RemoveNode(g, id) ==
    [releases |-> [i \in DOMAIN g.releases \ {id} |-> g.releases[i]],
     edges    |-> {e \in g.edges : e[1] # id /\ e[2] # id},
     count    |-> g.count + 1]

\* remove_releases counting every listed id, present or not.
RECURSIVE RemoveAllCountListed(_, _)
RemoveAllCountListed(g, ids) ==
    IF ids = {} THEN g
    ELSE LET id == Min(ids)
             g1 == IF id \in DOMAIN g.releases
                   THEN RemoveNode(g, id)
                   ELSE [g EXCEPT !.count = @ + 1]
         IN RemoveAllCountListed(g1, ids \ {id})

\* remove_releases visits the listed ids one by one; an id that is not present
\* is skipped, a present one is removed and counted.
RECURSIVE RemoveAll(_, _)
RemoveAll(g, ids) ==
    IF ids = {} THEN g
    ELSE LET id == Min(ids)
             g1 == IF id \in DOMAIN g.releases THEN RemoveNode(g, id) ELSE g
         IN RemoveAll(g1, ids \ {id})

\* remove_releases(ids) -> count removed
remove_releases(ids) ==
    LET g == RemoveAll([releases |-> releases, edges |-> edges, count |-> 0], ids) IN
    /\ releases' = g.releases
    /\ edges' = g.edges
    /\ ret' = [op |-> "remove_releases", ids |-> ids, count |-> g.count]
    /\ UNCHANGED <<next_id, issued, notGraphVars>>

RECURSIVE SeqOfIds(_)
SeqOfIds(S) == IF S = {} THEN <<>> ELSE <<Min(S)>> \o SeqOfIds(S \ {Min(S)})

\* next_releases treating a missing id as an error.
NextReleasesStrict(rels, es, id) ==
    LET targets == {e[2] : e \in {x \in es : x[1] = id}}
        order == SeqOfIds(targets)
    IN [status |-> IF id \in DOMAIN rels THEN "Ok" ELSE "InvalidRelease",
        value  |-> [i \in 1 .. Len(order) |-> rels[order[i]]]]

\* The direct successors of id, as a fresh sequence; empty for a missing id.
NextReleases(rels, es, id) ==
    LET targets == {e[2] : e \in {x \in es : x[1] = id}}
        order == SeqOfIds(targets)
    IN [status |-> "Ok", value |-> [i \in 1 .. Len(order) |-> rels[order[i]]]]

\* next_releases(id) -> lazy sequence of Release
next_releases(id) ==
    LET r == NextReleases(releases, edges, id) IN
    /\ ret' = [op |-> "next_releases", id |-> id, status |-> r.status, value |-> r.value]
    /\ UNCHANGED <<releases, edges, next_id, issued, notGraphVars>>

NextGraph ==
    \/ \E release \in NewReleases : add_release(release)
    \/ \E from \in IdArgs, to \in IdArgs : add_edge(from, to)
    \/ \E ids \in SUBSET IdArgs : remove_releases(ids)
    \/ \E id \in IdArgs : next_releases(id)

(***************************************************************************)
(* Properties of the Graph                                                 *)
(***************************************************************************)
\* C1: remove_releases(S) returns the number of ids of S that were present,
\* removes exactly those nodes, and leaves no edge with an endpoint in S.
C1_RemoveReleasesCount ==
    [][ret'.op = "remove_releases" =>
        /\ ret'.count = Cardinality(ret'.ids \cap DOMAIN releases)
        /\ DOMAIN releases' = DOMAIN releases \ ret'.ids
        /\ \A e \in edges' : e[1] \notin ret'.ids /\ e[2] \notin ret'.ids]_vars

\* A removal that listed a present and a missing id, on a graph with edges left.
C1_Witness ==
    /\ ret.op = "remove_releases"
    /\ ret.count = 1
    /\ Cardinality(ret.ids) >= 2
    /\ edges # {}

\* C2: in every reachable state both endpoints of every stored edge are
\* releases currently present.
C2_NoDanglingEdge ==
    \A e \in edges : e[1] \in Nodes /\ e[2] \in Nodes

\* A release was removed and an edge between the remaining releases is left.
C2_Witness ==
    /\ ret.op = "remove_releases"
    /\ ret.count >= 1
    /\ Nodes # {}
    /\ edges # {}

\* C3: add_edge returns InvalidEdge exactly when an endpoint is missing and
\* then changes neither nodes nor edges; otherwise it adds the edge.
C3_AddEdgeInvalid ==
    [][ret'.op = "add_edge" =>
        IF ret'.from \in Nodes /\ ret'.to \in Nodes
        THEN /\ ret'.status = "Ok"
             /\ edges' = edges \cup {<<ret'.from, ret'.to>>}
             /\ releases' = releases
        ELSE /\ ret'.status = "InvalidEdge"
             /\ edges' = edges
             /\ releases' = releases]_vars

\* add_edge failed on a graph that has releases and edges.
C3_Witness ==
    /\ ret.op = "add_edge"
    /\ ret.status = "InvalidEdge"
    /\ ret.from \in Nodes
    /\ ret.to \notin Nodes
    /\ edges # {}

\* C4: add_release never hands out an id it handed out before, and an id
\* that stays present names the same release after every step.
C4_IdsNeverReused ==
    [][/\ ret'.op = "add_release" => ret'.id \notin issued
       /\ ret'.op = "remove_releases" => Nodes \ ret'.ids \subseteq DOMAIN releases'
       /\ \A id \in Nodes \cap DOMAIN releases' : releases'[id] = releases[id]]_vars

\* add_release after the removal of release 0: the new release gets id 1.
C4_Witness ==
    /\ ret.op = "add_release"
    /\ ret.id = 1
    /\ Nodes = {1}
    /\ issued = {0, 1}

\* The number of places of sequence s holding x.
Occurrences(s, x) == Cardinality({i \in 1 .. Len(s) : s[i] = x})

\* C5: next_releases yields no error and changes nothing; for a missing id
\* the sequence is empty, for a present id it holds exactly the targets of
\* the node's outgoing edges.
C5_NextReleasesMissing ==
    [][ret'.op = "next_releases" =>
        /\ ret'.status = "Ok"
        /\ UNCHANGED <<releases, edges, next_id>>
        /\ IF ret'.id \notin Nodes
           THEN ret'.value = <<>>
           ELSE LET targets == {t \in Nodes : <<ret'.id, t>> \in edges} IN
                /\ Len(ret'.value) = Cardinality(targets)
                /\ \A t \in targets :
                      Occurrences(ret'.value, releases[t]) =
                      Cardinality({u \in targets : releases[u] = releases[t]})]_vars

\* next_releases called with the id of a removed release.
C5_Witness ==
    /\ ret.op = "next_releases"
    /\ ret.id \in issued \ Nodes
    /\ ret.value = <<>>
    /\ edges # {}

(***************************************************************************)
(* CincinnatiGraphFetchPlugin                                              *)
(***************************************************************************)
Runs == 1 .. MaxRuns

DEFAULT_UPSTREAM_URL == "http://localhost:8080/v1/graph"

\* Upstream settings a plugin is constructed with; the last one is no URI.
Upstreams == {DEFAULT_UPSTREAM_URL, "http://not.reachable.test", "not a uri"}

\* Request::get(upstream)...body(..) is Ok exactly for a string that parses as a URI.
ValidUri(u) == u \in {DEFAULT_UPSTREAM_URL, "http://not.reachable.test"}

\* Errors of the HTTP client before a response head is there.
TransportErrors == {"connection refused", "dns error"}

\* Status codes of a response head.
Statuses == {200, 204, 404, 500}

\* StatusCode::is_success
is_success(status) == 200 <= status /\ status < 300

\* StatusCode::to_string
StatusToString(status) ==
    CASE status = 200 -> "200 OK"
      [] status = 204 -> "204 No Content"
      [] status = 404 -> "404 Not Found"
      [] status = 500 -> "500 Internal Server Error"

\* Errors of reading the body stream of a response.
BodyErrors == {"connection reset"}

\* A Graph value: what InternalIO carries between plugins.
GraphValue(rels, es, next) == [releases |-> rels, edges |-> es, next_id |-> next]

EmptyGraph == GraphValue(<<>>, {}, 0)

\* Graph::add_release on a Graph value.
WithRelease(g, release) ==
    LET id == FreshId(g.releases, g.next_id) IN
    GraphValue([i \in DOMAIN g.releases \cup {id} |->
                    IF i = id THEN release ELSE g.releases[i]],
               g.edges, g.next_id + 1)

RECURSIVE WithReleases(_, _)
WithReleases(g, nodes) ==
    IF nodes = <<>> THEN g
    ELSE WithReleases(WithRelease(g, Head(nodes)), Tail(nodes))

\* Graph::add_edge for every listed edge; the first InvalidEdge ends it.
RECURSIVE WithEdges(_, _)
WithEdges(g, es) ==
    IF es = <<>> THEN [status |-> "Ok", graph |-> g]
    ELSE LET r == AddEdgeResult(g.releases, g.edges, Head(es)[1], Head(es)[2]) IN
         IF r.status = "Ok"
         THEN WithEdges(GraphValue(g.releases, r.edges, g.next_id), Tail(es))
         ELSE [status |-> "Err", graph |-> g]

\* The metadata key of a release's channels, by its key_suffix.
CHANNELS_KEY == "release.channels"

\* A response body: text that is JSON of the graph content type (a list of
\* nodes and a list of edges between node positions) or some other text.
JsonBody(nodes, es) == [json |-> TRUE, text |-> "", nodes |-> nodes, edges |-> es]

TextBody(text) == [json |-> FALSE, text |-> text, nodes |-> <<>>, edges |-> <<>>]

NoBody == TextBody("")

Bodies ==
    { TextBody("NOT FOUND"),
      JsonBody(<<>>, <<>>),
      JsonBody(<<Concrete("4.0.0-0.1", NoMetadata),
                 Concrete("4.0.0-0.2", [k \in {CHANNELS_KEY} |-> "stable"])>>,
               << <<0, 1>> >>),
      JsonBody(<<Concrete("4.0.0-0.1", NoMetadata)>>, << <<0, 1>> >>) }

\* serde_json::from_slice::<Graph>(body)
GraphFromJson(b) ==
    IF ~b.json THEN [status |-> "Err", graph |-> EmptyGraph]
    ELSE WithEdges(WithReleases(EmptyGraph, b.nodes), b.edges)

\* Parameters: key -> value
NoParameters == <<>>

InternalIO(graph, parameters) == [graph |-> graph, parameters |-> parameters]

\* The InternalIO values run_internal is called with.
InternalIOs ==
    { InternalIO(EmptyGraph, NoParameters),
      InternalIO(WithRelease(EmptyGraph, Concrete("4.0.0-0.9", NoMetadata)),
                 [k \in {"channel"} |-> "stable"]) }

\* GraphError and the failure::Error made of its text.
GraphError(variant, detail) == [variant |-> variant, detail |-> detail]

Ok(value) == [status |-> "Ok", io |-> value, error |-> GraphError("", "")]

Err(error) == [status |-> "Err", io |-> InternalIO(EmptyGraph, NoParameters), error |-> error]

NoResult == [status |-> "Pending", io |-> InternalIO(EmptyGraph, NoParameters),
             error |-> GraphError("", "")]

NoResponse == [kind |-> "none", status |-> 0, error |-> ""]

NoRead == [kind |-> "none", body |-> NoBody, error |-> ""]

\* CincinnatiGraphFetchPlugin::try_new(u, None): both counters at 0.
try_new(u) ==
    /\ upstream = u
    /\ http_upstream_reqs = 0
    /\ http_upstream_errors_total = 0
    /\ pc = [r \in Runs |-> "idle"]
    /\ io = [r \in Runs |-> InternalIO(EmptyGraph, NoParameters)]
    /\ resp = [r \in Runs |-> NoResponse]
    /\ body = [r \in Runs |-> NoRead]
    /\ result = [r \in Runs |-> NoResult]

InitFetch == \E u \in Upstreams : try_new(u)

\* run_internal counting an error where it counts the request.
run_internal_count_error(r, input) ==
    /\ pc[r] = "idle"
    /\ io' = [io EXCEPT ![r] = input]
    /\ IF ValidUri(upstream)
       THEN /\ http_upstream_errors_total' = http_upstream_errors_total + 1
            /\ pc' = [pc EXCEPT ![r] = "requesting"]
            /\ UNCHANGED result
       ELSE /\ pc' = [pc EXCEPT ![r] = "done"]
            /\ result' = [result EXCEPT ![r] = Err(GraphError("FailedUpstreamRequest", ""))]
            /\ UNCHANGED http_upstream_errors_total
    /\ UNCHANGED <<upstream, http_upstream_reqs, resp, body, notFetchVars>>

\* run_internal counting the request before assembling it.
run_internal_count_first(r, input) ==
    /\ pc[r] = "idle"
    /\ io' = [io EXCEPT ![r] = input]
    /\ http_upstream_reqs' = http_upstream_reqs + 1
    /\ IF ValidUri(upstream)
       THEN /\ pc' = [pc EXCEPT ![r] = "requesting"]
            /\ UNCHANGED result
       ELSE /\ pc' = [pc EXCEPT ![r] = "done"]
            /\ result' = [result EXCEPT ![r] = Err(GraphError("FailedUpstreamRequest", ""))]
    /\ UNCHANGED <<upstream, http_upstream_errors_total, resp, body, notFetchVars>>

\* run_internal, up to the future it returns: the request is assembled, and
\* counted when that succeeded.
run_internal(r, input) ==
    /\ pc[r] = "idle"
    /\ io' = [io EXCEPT ![r] = input]
    /\ IF ValidUri(upstream)
       THEN /\ http_upstream_reqs' = http_upstream_reqs + 1
            /\ pc' = [pc EXCEPT ![r] = "requesting"]
            /\ UNCHANGED result
       ELSE /\ pc' = [pc EXCEPT ![r] = "done"]
            /\ result' = [result EXCEPT ![r] = Err(GraphError("FailedUpstreamRequest", ""))]
            /\ UNCHANGED http_upstream_reqs
    /\ UNCHANGED <<upstream, http_upstream_errors_total, resp, body, notFetchVars>>

\* The future's first stage counting transport failures only.
request_done_count_unreachable_only(r) ==
    /\ pc[r] = "requesting"
    /\ \/ \E e \in TransportErrors :
            /\ resp' = [resp EXCEPT ![r] = [kind |-> "error", status |-> 0, error |-> e]]
            /\ http_upstream_errors_total' = http_upstream_errors_total + 1
            /\ result' = [result EXCEPT ![r] = Err(GraphError("FailedUpstreamFetch", e))]
            /\ pc' = [pc EXCEPT ![r] = "done"]
       \/ \E status \in Statuses :
            /\ resp' = [resp EXCEPT ![r] = [kind |-> "head", status |-> status, error |-> ""]]
            /\ UNCHANGED http_upstream_errors_total
            /\ IF is_success(status)
               THEN /\ pc' = [pc EXCEPT ![r] = "reading"]
                    /\ UNCHANGED result
               ELSE /\ result' = [result EXCEPT ![r] =
                            Err(GraphError("FailedUpstreamFetch", StatusToString(status)))]
                    /\ pc' = [pc EXCEPT ![r] = "done"]
    /\ UNCHANGED <<upstream, http_upstream_reqs, io, body, notFetchVars>>

\* The future's first stage writing the errors counter from a value read
\* before the other runs counted: an increment is lost.
request_done_lost_update(r) ==
    /\ pc[r] = "requesting"
    /\ \/ \E e \in TransportErrors :
            /\ resp' = [resp EXCEPT ![r] = [kind |-> "error", status |-> 0, error |-> e]]
            /\ http_upstream_errors_total' = 1
            /\ result' = [result EXCEPT ![r] = Err(GraphError("FailedUpstreamFetch", e))]
            /\ pc' = [pc EXCEPT ![r] = "done"]
       \/ \E status \in Statuses :
            /\ resp' = [resp EXCEPT ![r] = [kind |-> "head", status |-> status, error |-> ""]]
            /\ IF is_success(status)
               THEN /\ pc' = [pc EXCEPT ![r] = "reading"]
                    /\ UNCHANGED <<result, http_upstream_errors_total>>
               ELSE /\ http_upstream_errors_total' = 1
                    /\ result' = [result EXCEPT ![r] =
                            Err(GraphError("FailedUpstreamFetch", StatusToString(status)))]
                    /\ pc' = [pc EXCEPT ![r] = "done"]
    /\ UNCHANGED <<upstream, http_upstream_reqs, io, body, notFetchVars>>

\* The future's first stage counting a failure in both of its error mappings,
\* so that a transport failure is counted twice.
request_done_count_in_both(r) ==
    /\ pc[r] = "requesting"
    /\ \/ \E e \in TransportErrors :
            /\ resp' = [resp EXCEPT ![r] = [kind |-> "error", status |-> 0, error |-> e]]
            /\ http_upstream_errors_total' = http_upstream_errors_total + 2
            /\ result' = [result EXCEPT ![r] = Err(GraphError("FailedUpstreamFetch", e))]
            /\ pc' = [pc EXCEPT ![r] = "done"]
       \/ \E status \in Statuses :
            /\ resp' = [resp EXCEPT ![r] = [kind |-> "head", status |-> status, error |-> ""]]
            /\ IF is_success(status)
               THEN /\ pc' = [pc EXCEPT ![r] = "reading"]
                    /\ UNCHANGED <<result, http_upstream_errors_total>>
               ELSE /\ http_upstream_errors_total' = http_upstream_errors_total + 1
                    /\ result' = [result EXCEPT ![r] =
                            Err(GraphError("FailedUpstreamFetch", StatusToString(status)))]
                    /\ pc' = [pc EXCEPT ![r] = "done"]
    /\ UNCHANGED <<upstream, http_upstream_reqs, io, body, notFetchVars>>

\* The future's first stage: Client::request resolves to a transport error or
\* to a response head, whose status is looked at.
request_done(r) ==
    /\ pc[r] = "requesting"
    /\ \/ \E e \in TransportErrors :
            /\ resp' = [resp EXCEPT ![r] = [kind |-> "error", status |-> 0, error |-> e]]
            /\ http_upstream_errors_total' = http_upstream_errors_total + 1
            /\ result' = [result EXCEPT ![r] = Err(GraphError("FailedUpstreamFetch", e))]
            /\ pc' = [pc EXCEPT ![r] = "done"]
       \/ \E status \in Statuses :
            /\ resp' = [resp EXCEPT ![r] = [kind |-> "head", status |-> status, error |-> ""]]
            /\ IF is_success(status)
               THEN /\ pc' = [pc EXCEPT ![r] = "reading"]
                    /\ UNCHANGED <<result, http_upstream_errors_total>>
               ELSE /\ http_upstream_errors_total' = http_upstream_errors_total + 1
                    /\ result' = [result EXCEPT ![r] =
                            Err(GraphError("FailedUpstreamFetch", StatusToString(status)))]
                    /\ pc' = [pc EXCEPT ![r] = "done"]
    /\ UNCHANGED <<upstream, http_upstream_reqs, io, body, notFetchVars>>

\* The future's last stages counting the request again once the body is read.
body_done_count_again(r) ==
    /\ pc[r] = "reading"
    /\ \/ \E e \in BodyErrors :
            /\ body' = [body EXCEPT ![r] = [kind |-> "error", body |-> NoBody, error |-> e]]
            /\ result' = [result EXCEPT ![r] = Err(GraphError("FailedUpstreamFetch", e))]
       \/ \E b \in Bodies :
            /\ body' = [body EXCEPT ![r] = [kind |-> "body", body |-> b, error |-> ""]]
            /\ LET parsed == GraphFromJson(b) IN
               result' = [result EXCEPT ![r] =
                   IF parsed.status = "Ok"
                   THEN Ok(InternalIO(parsed.graph, io[r].parameters))
                   ELSE Err(GraphError("FailedJsonIn", "invalid graph"))]
    /\ pc' = [pc EXCEPT ![r] = "done"]
    /\ http_upstream_reqs' = http_upstream_reqs + 1
    /\ UNCHANGED <<upstream, http_upstream_errors_total, io, resp, notFetchVars>>

\* The graph handed on being the incoming one.
FetchedIOKeepIncoming(graph, incoming) == InternalIO(incoming.graph, incoming.parameters)

\* The InternalIO of a successful run: the deserialized graph and the
\* incoming parameters.
FetchedIO(graph, incoming) == InternalIO(graph, incoming.parameters)

\* The future's last stages with one InternalIO kept for all the runs, the
\* one of the first run.
body_done_shared_io(r) ==
    /\ pc[r] = "reading"
    /\ \/ \E e \in BodyErrors :
            /\ body' = [body EXCEPT ![r] = [kind |-> "error", body |-> NoBody, error |-> e]]
            /\ result' = [result EXCEPT ![r] = Err(GraphError("FailedUpstreamFetch", e))]
       \/ \E b \in Bodies :
            /\ body' = [body EXCEPT ![r] = [kind |-> "body", body |-> b, error |-> ""]]
            /\ LET parsed == GraphFromJson(b) IN
               result' = [result EXCEPT ![r] =
                   IF parsed.status = "Ok"
                   THEN Ok(InternalIO(parsed.graph, io[1].parameters))
                   ELSE Err(GraphError("FailedJsonIn", "invalid graph"))]
    /\ pc' = [pc EXCEPT ![r] = "done"]
    /\ UNCHANGED <<upstream, http_upstream_reqs, http_upstream_errors_total, io, resp,
                   notFetchVars>>

\* The future's last stages: the body is read whole, deserialized and wrapped.
body_done(r) ==
    /\ pc[r] = "reading"
    /\ \/ \E e \in BodyErrors :
            /\ body' = [body EXCEPT ![r] = [kind |-> "error", body |-> NoBody, error |-> e]]
            /\ result' = [result EXCEPT ![r] = Err(GraphError("FailedUpstreamFetch", e))]
       \/ \E b \in Bodies :
            /\ body' = [body EXCEPT ![r] = [kind |-> "body", body |-> b, error |-> ""]]
            /\ LET parsed == GraphFromJson(b) IN
               result' = [result EXCEPT ![r] =
                   IF parsed.status = "Ok"
                   THEN Ok(FetchedIO(parsed.graph, io[r]))
                   ELSE Err(GraphError("FailedJsonIn", "invalid graph"))]
    /\ pc' = [pc EXCEPT ![r] = "done"]
    /\ UNCHANGED <<upstream, http_upstream_reqs, http_upstream_errors_total, io, resp,
                   notFetchVars>>

NextFetch ==
    \/ \E r \in Runs, input \in InternalIOs : run_internal(r, input)
    \/ \E r \in Runs : request_done(r)
    \/ \E r \in Runs : body_done(r)

(***************************************************************************)
(* Properties of the graph-fetch plugin                                    *)
(***************************************************************************)
\* What happened to run r, read off what the upstream did.
Invoked(r) == pc[r] # "idle"

Failed(r) == pc[r] = "done" /\ result[r].status = "Err"

Succeeded(r) == pc[r] = "done" /\ result[r].status = "Ok"

FailedToAssemble(r) == Failed(r) /\ resp[r].kind = "none"

TransportFailed(r) == Failed(r) /\ resp[r].kind = "error"

StatusFailed(r) == Failed(r) /\ resp[r].kind = "head" /\ ~is_success(resp[r].status)

BodyUnreadable(r) == Failed(r) /\ body[r].kind = "error"

BodyMalformed(r) == Failed(r) /\ body[r].kind = "body"

\* C8 as stated: every invocation of run, whatever its outcome, has increased
\* the requests counter by exactly 1.
C8_RequestsEveryInvocation ==
    http_upstream_reqs = Cardinality({r \in Runs : Invoked(r)})

\* C8, amended: every invocation whose request was assembled has increased the
\* requests counter by exactly 1, whatever its later outcome, and an
\* invocation that failed to assemble its request has not increased it.
C8_RequestsEveryAssembledRequest ==
    /\ http_upstream_reqs = Cardinality({r \in Runs : Invoked(r) /\ ~FailedToAssemble(r)})
    /\ \A r \in Runs : FailedToAssemble(r) <=> (Invoked(r) /\ ~ValidUri(upstream))

\* Two runs with different outcomes, a success and a malformed body.
C8_Witness ==
    \E r1, r2 \in Runs :
        /\ Succeeded(r1)
        /\ BodyMalformed(r2)
        /\ http_upstream_reqs >= 2

\* C9 as stated: every run that failed by a transport failure, a non-success
\* status or a malformed body has increased the errors counter by exactly 1,
\* and runs failing by different ones of these causes report different errors.
C9_ErrorsEveryCause ==
    /\ http_upstream_errors_total =
          Cardinality({r \in Runs : TransportFailed(r) \/ StatusFailed(r) \/ BodyMalformed(r)})
    /\ \A r1, r2 \in Runs :
          \/ TransportFailed(r1) /\ StatusFailed(r2)
          \/ TransportFailed(r1) /\ BodyMalformed(r2)
          \/ StatusFailed(r1) /\ BodyMalformed(r2)
          => result[r1].error # result[r2].error

\* C9, amended: a run that failed by a transport failure or a non-success
\* status has increased the errors counter by exactly 1; a run that failed on
\* the body (unreadable or malformed) or on assembling the request has not.
\* A malformed body is reported as FailedJsonIn, transport and status failures
\* as FailedUpstreamFetch with different texts.
C9_ErrorsTransportAndStatus ==
    /\ http_upstream_errors_total =
          Cardinality({r \in Runs : TransportFailed(r) \/ StatusFailed(r)})
    /\ \A r \in Runs :
          /\ BodyMalformed(r) => result[r].error.variant = "FailedJsonIn"
          /\ TransportFailed(r) \/ StatusFailed(r)
                => result[r].error.variant = "FailedUpstreamFetch"
    /\ \A r1, r2 \in Runs :
          TransportFailed(r1) /\ StatusFailed(r2)
              => result[r1].error.detail # result[r2].error.detail

\* A run failed on the status and another on a malformed body: one error counted.
C9_Witness ==
    \E r1, r2 \in Runs :
        /\ StatusFailed(r1)
        /\ BodyMalformed(r2)
        /\ http_upstream_errors_total = 1

StepOf(r) == pc'[r] # pc[r]

\* What a step has added to the two counters.
Counted(requests, errors) ==
    /\ http_upstream_reqs' = http_upstream_reqs + requests
    /\ http_upstream_errors_total' = http_upstream_errors_total + errors

\* The positions a run goes through, each step being the step of one run.
RunPath ==
    /\ Cardinality({r \in Runs : StepOf(r)}) <= 1
    /\ (\A r \in Runs : ~StepOf(r)) => Counted(0, 0)
    /\ \A r \in Runs : StepOf(r) =>
          \/ pc[r] = "idle" /\ pc'[r] = "requesting"
          \/ pc[r] = "idle" /\ pc'[r] = "done" /\ FailedToAssemble(r)'
          \/ pc[r] = "requesting" /\ pc'[r] \in {"reading", "done"}
          \/ pc[r] = "reading" /\ pc'[r] = "done"

\* C11: a run whose upstream answers with a success status and a well-formed
\* graph body returns Ok; over its steps (request sent, success status seen,
\* body read and deserialized) the requests counter goes up by exactly 1 and
\* the errors counter does not move.
C11_SuccessCounts ==
    [][/\ RunPath
       /\ \A r \in Runs : StepOf(r) =>
            /\ pc'[r] = "requesting" => Counted(1, 0)
            /\ pc'[r] = "reading" =>
                  resp'[r].kind = "head" /\ is_success(resp'[r].status) /\ Counted(0, 0)
            /\ pc[r] = "reading" /\ body'[r].kind = "body"
                  /\ GraphFromJson(body'[r].body).status = "Ok"
                  => Succeeded(r)' /\ Counted(0, 0)
            /\ Succeeded(r)' =>
                  /\ pc[r] = "reading"
                  /\ body'[r].kind = "body"
                  /\ GraphFromJson(body'[r].body).status = "Ok"]_vars

\* One run, answered 200 with the two-release graph, has returned Ok: one
\* request and no error counted.
C11_Witness ==
    \E r \in Runs :
        /\ Succeeded(r)
        /\ resp[r].status = 200
        /\ \A o \in Runs \ {r} : pc[o] = "idle"
        /\ http_upstream_reqs = 1
        /\ http_upstream_errors_total = 0

\* C12: a run whose upstream is unreachable or answers with a non-success
\* status returns an error; over its steps (request sent, failure seen) the
\* requests counter goes up by exactly 1 and the errors counter by exactly 1,
\* and nothing is counted for the run after it has returned.
C12_FailureCounts ==
    [][/\ RunPath
       /\ \A r \in Runs : StepOf(r) =>
            /\ pc'[r] = "requesting" => Counted(1, 0)
            /\ pc[r] = "requesting" /\ resp'[r].kind = "error" =>
                  TransportFailed(r)' /\ Counted(0, 1)
            /\ pc[r] = "requesting" /\ resp'[r].kind = "head"
                  /\ ~is_success(resp'[r].status) =>
                  StatusFailed(r)' /\ Counted(0, 1)
            /\ TransportFailed(r)' \/ StatusFailed(r)' => pc[r] = "requesting"]_vars

\* A run found the upstream unreachable and another was answered 404: two
\* requests and two errors counted.
C12_Witness ==
    \E r1, r2 \in Runs :
        /\ TransportFailed(r1)
        /\ StatusFailed(r2) /\ resp[r2].status = 404
        /\ http_upstream_reqs = 2
        /\ http_upstream_errors_total = 2

\* No run is in flight.
AllCompleted == \A r \in Runs : pc[r] \in {"idle", "done"}

\* The runs made so far.
N == Cardinality({r \in Runs : Invoked(r)})

\* C22 as stated: once the N runs made have all completed, in whatever order
\* their steps were taken, the requests counter has grown by exactly N and
\* the errors counter by the number of runs that failed at the transport or
\* status stage.
C22_CountsAllRuns ==
    AllCompleted =>
        /\ http_upstream_reqs = N
        /\ http_upstream_errors_total =
              Cardinality({r \in Runs : TransportFailed(r) \/ StatusFailed(r)})

\* C22, amended: once the N runs made have all completed, in whatever order
\* their steps were taken, the requests counter has grown by exactly N when
\* the upstream is a URI a request can be assembled for and by 0 when it is
\* not, and the errors counter by the number of runs that failed at the
\* transport or status stage.
C22_NoIncrementLost ==
    AllCompleted =>
        /\ http_upstream_reqs = IF ValidUri(upstream) THEN N ELSE 0
        /\ http_upstream_errors_total =
              Cardinality({r \in Runs : TransportFailed(r) \/ StatusFailed(r)})

\* Every run has been made and has completed, each failed at the status
\* stage: as many requests and errors as runs.
C22_Witness ==
    /\ AllCompleted
    /\ N = MaxRuns
    /\ \A r \in Runs : StatusFailed(r)
    /\ http_upstream_reqs = MaxRuns
    /\ http_upstream_errors_total = MaxRuns

\* C25: the errors counter is at most the requests counter, in every state
\* and after every step, and no step decreases either counter.
C25_ErrorsAtMostRequests ==
    [][/\ http_upstream_errors_total <= http_upstream_reqs
       /\ http_upstream_errors_total' <= http_upstream_reqs'
       /\ http_upstream_reqs' >= http_upstream_reqs
       /\ http_upstream_errors_total' >= http_upstream_errors_total]_vars

\* One run has failed at the transport stage while another is reading its
\* body: two requests and one error counted.
C25_Witness ==
    \E r1, r2 \in Runs :
        /\ TransportFailed(r1)
        /\ pc[r2] = "reading"
        /\ http_upstream_errors_total = 1
        /\ http_upstream_reqs = 2

(***************************************************************************)
(* AppSettings::policy_plugins and the pipeline                            *)
(***************************************************************************)
Requests == 1 .. MaxRequests

GRAPH_FETCH == "cincinnati-graph-fetch"

CHANNEL_FILTER == "channel-filter"

PluginNames == {GRAPH_FETCH, CHANNEL_FILTER}

\* AppSettings.policies: every list of plugin settings up to MaxPolicies long.
PolicyLists == UNION {[1 .. n -> PluginNames] : n \in 0 .. MaxPolicies}

\* AppSettings::default_openshift_policies
default_openshift_policies == <<GRAPH_FETCH, CHANNEL_FILTER>>

\* The counters a plugin registers when it is built.
CounterNames(name) ==
    IF name = GRAPH_FETCH
    THEN <<"http_upstream_requests_total", "http_upstream_errors_total">>
    ELSE <<>>

\* Registry::register taking a name that is already there.
RECURSIVE RegisterAllAgain(_, _)
RegisterAllAgain(reg, names) ==
    IF names = <<>> THEN [status |-> "Ok", registry |-> reg]
    ELSE RegisterAllAgain(reg \cup {Head(names)}, Tail(names))

\* Registry::register for each name in turn; a name already there is an error
\* and what was registered before it stays.
RECURSIVE RegisterAll(_, _)
RegisterAll(reg, names) ==
    IF names = <<>> THEN [status |-> "Ok", registry |-> reg]
    ELSE IF Head(names) \in reg THEN [status |-> "Err", registry |-> reg]
    ELSE RegisterAll(reg \cup {Head(names)}, Tail(names))

\* PluginSettings::build_plugin(Some(registry))
build_plugin(name, reg) == RegisterAll(reg, CounterNames(name))

\* The loop of policy_plugins handing out the plugins built before an error.
RECURSIVE BuildAllKeepBuilt(_, _, _)
BuildAllKeepBuilt(confs, plugins, reg) ==
    IF confs = <<>> THEN [status |-> "Ok", plugins |-> plugins, registry |-> reg]
    ELSE LET b == build_plugin(Head(confs), reg) IN
         IF b.status = "Ok"
         THEN BuildAllKeepBuilt(Tail(confs), Append(plugins, Head(confs)), b.registry)
         ELSE [status |-> "Err", plugins |-> plugins, registry |-> b.registry]

\* The loop of policy_plugins: the first build_plugin error ends it and the
\* plugins built so far are dropped.
RECURSIVE BuildAll(_, _, _)
BuildAll(confs, plugins, reg) ==
    IF confs = <<>> THEN [status |-> "Ok", plugins |-> plugins, registry |-> reg]
    ELSE LET b == build_plugin(Head(confs), reg) IN
         IF b.status = "Ok"
         THEN BuildAll(Tail(confs), Append(plugins, Head(confs)), b.registry)
         ELSE [status |-> "Err", plugins |-> <<>>, registry |-> b.registry]

\* policy_plugins taking the default list when policies are configured.
PolicyPluginsInverted(configured, reg) ==
    BuildAll(IF configured # <<>> THEN default_openshift_policies ELSE configured, <<>>, reg)

\* AppSettings::policy_plugins: the default list when none is configured.
PolicyPlugins(configured, reg) ==
    BuildAll(IF configured = <<>> THEN default_openshift_policies ELSE configured, <<>>, reg)

\* CincinnatiGraphFetchPlugin::deserialize_config: an empty upstream is
\* refused.
deserialize_config(u) ==
    IF u = "" THEN [status |-> "Err", error |-> "empty upstream"]
    ELSE [status |-> "Ok", error |-> ""]

\* What policy_plugins returns: default_openshift_policies()? deserializes the
\* default settings with the upstream of AppSettings first, whatever is
\* configured; then the plugins are built, where registering a counter name
\* a second time is the error.
Assemble(u, configured, reg) ==
    LET defaults == deserialize_config(u)
        built == PolicyPlugins(configured, reg)
    IN IF defaults.status = "Err"
       THEN [status |-> "Err", plugins |-> <<>>, error |-> defaults.error, registry |-> reg]
       ELSE [status |-> built.status, plugins |-> built.plugins,
             error |-> IF built.status = "Err" THEN "AlreadyReg" ELSE "",
             registry |-> built.registry]

NotBuilt == [status |-> "NotBuilt", plugins |-> <<>>, error |-> ""]

IdleRequest ==
    [pc |-> "idle", stage |-> 0, input |-> InternalIO(EmptyGraph, NoParameters),
     io |-> InternalIO(EmptyGraph, NoParameters), trace |-> <<>>, result |-> NoResult]

InitPipe ==
    /\ policies \in PolicyLists
    /\ registry = {}
    /\ pipeline = NotBuilt
    /\ rq = [q \in Requests |-> IdleRequest]

policy_plugins ==
    /\ pipeline.status = "NotBuilt"
    /\ LET built == Assemble(upstream, policies, registry) IN
        /\ pipeline' = [status |-> built.status, plugins |-> built.plugins,
                        error |-> built.error]
        /\ registry' = built.registry
    /\ UNCHANGED <<policies, rq, notPipeVars>>

\* A request enters the pipeline with its graph and parameters.
process(q, input) ==
    /\ pipeline.status = "Ok"
    /\ rq[q].pc = "idle"
    /\ rq' = [rq EXCEPT ![q] = [@ EXCEPT !.pc = "running", !.stage = 1,
                                         !.input = input, !.io = input]]
    /\ UNCHANGED <<policies, registry, pipeline, notPipeVars>>

\* The plugin the run of request q is at.
Current(q) == pipeline.plugins[rq[q].stage]

\* A pipeline that goes on with the input of a failed plugin.
AfterPluginSkipFailed(run, plugins, name, input, out) ==
    LET logged == Append(run.trace, [plugin |-> name, input |-> input, output |-> out])
        next == IF out.status = "Ok" THEN out.io ELSE run.io
    IN IF run.stage = Len(plugins)
       THEN [run EXCEPT !.pc = "done", !.trace = logged, !.io = next, !.result = Ok(next)]
       ELSE [run EXCEPT !.stage = @ + 1, !.trace = logged, !.io = next]

\* The fold of the pipeline over one plugin's result: its output is the next
\* plugin's input, its error ends the run.
AfterPlugin(run, plugins, name, input, out) ==
    LET logged == Append(run.trace, [plugin |-> name, input |-> input, output |-> out])
    IN IF out.status = "Err"
       THEN [run EXCEPT !.pc = "done", !.trace = logged, !.result = out]
       ELSE IF run.stage = Len(plugins)
       THEN [run EXCEPT !.pc = "done", !.trace = logged, !.io = out.io, !.result = out]
       ELSE [run EXCEPT !.stage = @ + 1, !.trace = logged, !.io = out.io]

\* The pipeline calls the graph-fetch plugin with the run's current io.
fetch_call(q) ==
    /\ rq[q].pc = "running"
    /\ Current(q) = GRAPH_FETCH
    /\ run_internal(q, rq[q].io)

\* The graph-fetch future has resolved: the pipeline goes on or ends.
fetch_return(q) ==
    /\ rq[q].pc = "running"
    /\ Current(q) = GRAPH_FETCH
    /\ pc[q] = "done"
    /\ rq' = [rq EXCEPT ![q] = AfterPlugin(@, pipeline.plugins, GRAPH_FETCH, io[q], result[q])]
    /\ UNCHANGED <<policies, registry, pipeline, notPipeVars>>

\* A release tagged for the channel.
InChannel(release, channel) ==
    /\ release.kind = "Concrete"
    /\ CHANNELS_KEY \in DOMAIN release.metadata
    /\ release.metadata[CHANNELS_KEY] = channel

\* The channel filter: the subgraph of the releases tagged for the channel
\* named by the parameters; a request without a channel fails.
ChannelFilter(input) ==
    IF "channel" \notin DOMAIN input.parameters
    THEN Err(GraphError("MissingParams", "channel"))
    ELSE LET g == input.graph
             drop == {id \in DOMAIN g.releases :
                         ~InChannel(g.releases[id], input.parameters["channel"])}
             kept == RemoveAll([releases |-> g.releases, edges |-> g.edges, count |-> 0], drop)
         IN Ok(InternalIO(GraphValue(kept.releases, kept.edges, g.next_id), input.parameters))

\* The pipeline runs the channel filter, which does not suspend.
channel_filter(q) ==
    /\ rq[q].pc = "running"
    /\ Current(q) = CHANNEL_FILTER
    /\ rq' = [rq EXCEPT ![q] =
                AfterPlugin(@, pipeline.plugins, CHANNEL_FILTER, rq[q].io, ChannelFilter(rq[q].io))]
    /\ UNCHANGED <<policies, registry, pipeline, notPipeVars>>

\* The futures of the runs the pipeline has called.
NextPipe ==
    \/ policy_plugins
    \/ \E q \in Requests, input \in InternalIOs : process(q, input)
    \/ \E q \in Requests : fetch_call(q)
    \/ \E q \in Requests : request_done(q)
    \/ \E q \in Requests : body_done(q)
    \/ \E q \in Requests : fetch_return(q)
    \/ \E q \in Requests : channel_filter(q)

(***************************************************************************)
(* Properties of the pipeline                                              *)
(***************************************************************************)
\* The plugins the pipeline is to hold, by the configuration.
Configured == IF policies = <<>> THEN <<GRAPH_FETCH, CHANNEL_FILTER>> ELSE policies

\* C6: the first plugin to fail is the last one run, its error is the result
\* of the run, and a graph is the result only when every plugin succeeded.
C6_FirstFailureStops ==
    \A q \in Requests :
        LET run == rq[q] IN
        /\ \A i \in 1 .. Len(run.trace) :
              run.trace[i].output.status = "Err" =>
                  /\ i = Len(run.trace)
                  /\ run.pc = "done"
                  /\ run.result.status = "Err"
                  /\ run.result.error = run.trace[i].output.error
        /\ run.pc = "done" /\ run.result.status = "Err" =>
              /\ run.trace[Len(run.trace)].output.status = "Err"
              /\ (\A i \in 1 .. Len(run.trace) : run.trace[i].plugin # GRAPH_FETCH)
                    => pc[q] = "idle"
        /\ run.pc = "done" /\ run.result.status = "Ok" =>
              /\ Len(run.trace) = Len(pipeline.plugins)
              /\ \A i \in 1 .. Len(run.trace) : run.trace[i].output.status = "Ok"
              /\ run.result.io = run.trace[Len(run.trace)].output.io

\* A run of a two-plugin pipeline that ended with the error of its first plugin.
C6_Witness ==
    \E q \in Requests :
        /\ rq[q].pc = "done"
        /\ rq[q].result.status = "Err"
        /\ Len(rq[q].trace) = 1
        /\ Len(pipeline.plugins) = 2

\* C7: the plugins are built in the order of the configured list (the default
\* list when none is configured) and run in that order, each on the output
\* of the one before it, the first on the request's input.
C7_ConfiguredOrder ==
    /\ pipeline.status = "Ok" => pipeline.plugins = Configured
    /\ \A q \in Requests :
          LET run == rq[q] IN
          /\ Len(run.trace) <= Len(Configured)
          /\ \A i \in 1 .. Len(run.trace) :
                /\ run.trace[i].plugin = Configured[i]
                /\ run.trace[i].input =
                      IF i = 1 THEN run.input ELSE run.trace[i - 1].output.io
          /\ run.pc = "done" /\ run.result.status = "Ok" =>
                /\ Len(run.trace) = Len(Configured)
                /\ run.result.io = run.trace[Len(run.trace)].output.io

\* A run through the configured list channel-filter, graph-fetch that ended in
\* a graph.
C7_Witness ==
    \E q \in Requests :
        /\ policies = <<CHANNEL_FILTER, GRAPH_FETCH>>
        /\ rq[q].pc = "done"
        /\ rq[q].result.status = "Ok"
        /\ rq[q].result.io.graph.edges # {}

\* The configuration makes the construction of a plugin fail: the upstream
\* is empty, or the list has the graph-fetch plugin, which registers its
\* counters, twice.
ConstructionFails ==
    \/ upstream = ""
    \/ \E i, j \in 1 .. Len(Configured) :
          i < j /\ Configured[i] = GRAPH_FETCH /\ Configured[j] = GRAPH_FETCH

\* C20: policy_plugins returns an error exactly when the construction of a
\* plugin fails; it then returns the error of that construction and no
\* plugin, and no request is ever run through plugins built before the
\* failure.
C20_NoPipelineOnFailure ==
    /\ pipeline.status # "NotBuilt" =>
          (pipeline.status = "Err" <=> ConstructionFails)
    /\ pipeline.status = "Err" =>
          /\ pipeline.plugins = <<>>
          /\ pipeline.error = IF upstream = "" THEN "empty upstream" ELSE "AlreadyReg"
          /\ \A q \in Requests : rq[q] = IdleRequest /\ pc[q] = "idle"

\* policy_plugins has failed on the second plugin of the list, after the
\* first had registered its counters, and has returned no plugin.
C20_Witness ==
    /\ pipeline.status = "Err"
    /\ policies = <<GRAPH_FETCH, GRAPH_FETCH>>
    /\ registry # {}
    /\ pipeline.plugins = <<>>

\* The counter names of a plugin, as a set.
NamesOf(name) == {CounterNames(name)[i] : i \in 1 .. Len(CounterNames(name))}

\* C21: building a plugin whose counter name is already in the registry
\* fails, so no two plugins policy_plugins has returned share a counter name,
\* and the registry holds the names of the plugins returned.
C21_CounterNamesUnique ==
    /\ pipeline.status = "Ok" =>
          /\ \A i, j \in 1 .. Len(pipeline.plugins) :
                i # j => NamesOf(pipeline.plugins[i]) \cap NamesOf(pipeline.plugins[j]) = {}
          /\ registry = UNION {NamesOf(pipeline.plugins[i]) : i \in 1 .. Len(pipeline.plugins)}
    /\ pipeline.status # "NotBuilt" /\ upstream # "" =>
          \A j \in 1 .. Len(Configured) :
              (\E i \in 1 .. (j - 1) : NamesOf(Configured[i]) \cap NamesOf(Configured[j]) # {})
                  => pipeline.status = "Err" /\ pipeline.error = "AlreadyReg"

\* A second graph-fetch plugin was refused: the registry holds the two
\* counter names of the first.
C21_Witness ==
    /\ pipeline.error = "AlreadyReg"
    /\ Cardinality(registry) = 2
    /\ Len(policies) = 2
    /\ policies[1] = policies[2]

(***************************************************************************)
(* Requests running one pipeline concurrently                              *)
(***************************************************************************)
\* The lists of policies of the pipeline the requests share: the default
\* one and one that filters before it fetches.
SharedPolicies == { <<>>, <<CHANNEL_FILTER, GRAPH_FETCH>> }

\* One pipeline to build and a run of it for each of the requests, which
\* are as many as the plugin instance has runs.
InitShared ==
    /\ policies \in SharedPolicies
    /\ registry = {}
    /\ pipeline = NotBuilt
    /\ rq = [q \in Runs |-> IdleRequest]

\* The steps of the requests, in any order.
NextShared ==
    \/ policy_plugins
    \/ \E q \in Runs, input \in InternalIOs : process(q, input)
    \/ \E q \in Runs : fetch_call(q)
    \/ \E q \in Runs : request_done(q)
    \/ \E q \in Runs : body_done(q)
    \/ \E q \in Runs : fetch_return(q)
    \/ \E q \in Runs : channel_filter(q)

\* What a graph-fetch run returns for its input and the answer it got.
FetchAlone(input, answer, read) ==
    IF answer.kind = "error" THEN Err(GraphError("FailedUpstreamFetch", answer.error))
    ELSE IF ~is_success(answer.status)
    THEN Err(GraphError("FailedUpstreamFetch", StatusToString(answer.status)))
    ELSE IF read.kind = "error" THEN Err(GraphError("FailedUpstreamFetch", read.error))
    ELSE LET parsed == GraphFromJson(read.body) IN
         IF parsed.status = "Ok" THEN Ok(InternalIO(parsed.graph, input.parameters))
         ELSE Err(GraphError("FailedJsonIn", "invalid graph"))

\* What the plugins return when run one after the other on the input, with
\* nothing else running, the upstream answering as it answered the request.
RECURSIVE RunAlone(_, _, _, _)
RunAlone(plugins, input, answer, read) ==
    IF plugins = <<>> THEN Ok(input)
    ELSE LET out == IF Head(plugins) = GRAPH_FETCH THEN FetchAlone(input, answer, read)
                    ELSE ChannelFilter(input)
         IN IF out.status = "Err" THEN out
            ELSE RunAlone(Tail(plugins), out.io, answer, read)

\* What request q owns: its run of the pipeline and of the graph fetch.
Owned(q) == <<rq[q], pc[q], io[q], resp[q], body[q], result[q]>>

\* C23: a step changes what one request owns and nothing of the others, and
\* a request that is done has the result the plugins give when run alone on
\* its input, however the steps of the requests were interleaved.
C23_RunsIsolated ==
    [][/\ Cardinality({q \in Runs : Owned(q)' # Owned(q)}) <= 1
       /\ \A q \in Runs :
             rq'[q].pc = "done" =>
                 rq'[q].result =
                     RunAlone(pipeline'.plugins, rq'[q].input, resp'[q], body'[q])]_vars

\* The first request is done and has a graph to return while the second,
\* which came with another input, is suspended on its upstream request.
C23_Witness ==
    /\ rq[1].pc = "done"
    /\ rq[1].result.status = "Ok"
    /\ rq[2].pc = "running"
    /\ pc[2] = "requesting"
    /\ rq[1].input # rq[2].input

(***************************************************************************)
(* Texts and numbers: str::parse::<f64> and the comparison of f64 values   *)
(***************************************************************************)
\* A text whose characters matter is the sequence of its characters.
Digits == <<"0", "1", "2", "3", "4", "5", "6", "7", "8", "9">>

IsDigit(c) == \E i \in 1 .. Len(Digits) : Digits[i] = c

DigitValue(c) == (CHOOSE i \in 1 .. Len(Digits) : Digits[i] = c) - 1

AllDigits(s) == \A i \in 1 .. Len(s) : IsDigit(s[i])

\* The number a run of digits writes.
RECURSIVE DigitsValue(_)
DigitsValue(s) ==
    IF s = <<>> THEN 0
    ELSE DigitsValue(SubSeq(s, 1, Len(s) - 1)) * 10 + DigitValue(s[Len(s)])

RECURSIVE Pow10(_)
Pow10(d) == IF d = 0 THEN 1 ELSE 10 * Pow10(d - 1)

\* An f64 value: the finite value n / 10^d, an infinity (n its sign) or NaN.
Finite(n, d) == [kind |-> "finite", n |-> n, d |-> d]

Infinity(sign) == [kind |-> "inf", n |-> sign, d |-> 0]

NaN == [kind |-> "nan", n |-> 0, d |-> 0]

Parsed(value) == [status |-> "Ok", value |-> value]

ParseFloatError == [status |-> "Err", value |-> NaN]

\* An unsigned decimal text: digits, at most one point, at least one digit.
ParseDecimal(s) ==
    LET points == {i \in 1 .. Len(s) : s[i] = "."} IN
    IF points = {}
    THEN IF s # <<>> /\ AllDigits(s) THEN Parsed(Finite(DigitsValue(s), 0))
         ELSE ParseFloatError
    ELSE IF Cardinality(points) > 1 THEN ParseFloatError
    ELSE LET p == CHOOSE i \in points : TRUE
             int == SubSeq(s, 1, p - 1)
             frac == SubSeq(s, p + 1, Len(s))
         IN IF AllDigits(int) /\ AllDigits(frac) /\ Len(int) + Len(frac) > 0
            THEN Parsed(Finite(DigitsValue(int \o frac), Len(frac)))
            ELSE ParseFloatError

\* The value with the sign applied.
Signed(sign, parsed) ==
    IF parsed.status = "Err" THEN parsed
    ELSE IF parsed.value.kind = "nan" THEN parsed
    ELSE Parsed([parsed.value EXCEPT !.n = sign * @])

\* text.parse::<f64>() for a text without an exponent part: an optional sign,
\* then "inf", "NaN" or a decimal; anything else is a ParseFloatError.
ParseF64(s) ==
    IF s = <<>> THEN ParseFloatError
    ELSE LET sign == IF s[1] = "-" THEN -1 ELSE 1
             rest == IF s[1] \in {"+", "-"} THEN Tail(s) ELSE s
         IN IF rest = <<"N", "a", "N">> THEN Parsed(NaN)
            ELSE IF rest = <<"i", "n", "f">> THEN Parsed(Infinity(sign))
            ELSE Signed(sign, ParseDecimal(rest))

\* a >= b on f64 values.
Ge(a, b) ==
    IF a.kind = "nan" \/ b.kind = "nan" THEN FALSE
    ELSE IF a.kind = "inf" THEN a.n > 0 \/ (b.kind = "inf" /\ b.n < 0)
    ELSE IF b.kind = "inf" THEN b.n < 0
    ELSE a.n * Pow10(b.d) >= b.n * Pow10(a.d)

\* a > b on f64 values: false when either is NaN.
Gt(a, b) ==
    IF a.kind = "nan" \/ b.kind = "nan" THEN FALSE
    ELSE IF a.kind = "inf" THEN a.n > 0 /\ ~(b.kind = "inf" /\ b.n > 0)
    ELSE IF b.kind = "inf" THEN b.n < 0
    ELSE a.n * Pow10(b.d) > b.n * Pow10(a.d)

(***************************************************************************)
(* PhasedRolloutPlugin: the metrics source and get_failure_ratios          *)
(***************************************************************************)
FAILURE_RATIO == "failure_ratio"

DEFAULT_VERSION_FAILURE_RATIO == <<"1", ".", "0">>

DEFAULT_VERSION_FAILURE_RATIO_THRESHOLD == Finite(8, 1)

\* The versions the metrics source may report on.
TelemetryVersions == {"4.0.0-0.1", "4.0.0-0.2"}

\* The sample texts of its results: at the default threshold, above it, a
\* NaN and a text that is no number.
Samples == { <<"0", ".", "8">>, <<"0", ".", "9">>, <<"N", "a", "N">>, <<"a", "b", "c">> }

\* serde_json::Value, as far as a metric goes: a string, a number or an
\* object of labels.
JsonString(text) == [kind |-> "string", text |-> text, labels |-> <<>>]

JsonNumber(text) == [kind |-> "number", text |-> text, labels |-> <<>>]

JsonObject(labels) == [kind |-> "object", text |-> "", labels |-> labels]

VectorResult(metric, sample) == [metric |-> metric, value |-> [sample |-> sample]]

WellFormedEntries ==
    {VectorResult(JsonObject([l \in {"version"} |-> JsonString(v)]), s) :
        v \in TelemetryVersions, s \in Samples}

\* A metric that is no object, one without a version label and one whose
\* version is no string.
MalformedEntries ==
    { VectorResult(JsonString("4.0.0-0.1"), <<"0", ".", "8">>),
      VectorResult(JsonObject([l \in {"type"} |-> JsonString("failure")]), <<"0", ".", "8">>),
      VectorResult(JsonObject([l \in {"version"} |-> JsonNumber("4")]), <<"0", ".", "8">>) }

\* What block_on(client.query(..)) gives: a QueryResult::Success with a vector
\* or a matrix, a QueryResult::Error, or the error of a failed request.
QueryVector(entries) == [kind |-> "vector", result |-> entries]

QueryFailures ==
    {[kind |-> k, result |-> <<>>] : k \in {"matrix", "error", "unreachable"}}

Responses ==
    {QueryVector(entries) :
        entries \in UNION {[1 .. n -> WellFormedEntries \cup MalformedEntries] :
                              n \in 0 .. MaxEntries}}
    \cup QueryFailures

\* The version label of a result entry, when it has one that is a string.
NoVersion == [found |-> FALSE, version |-> ""]

VersionOf(vector_result) ==
    LET metric == vector_result.metric IN
    IF metric.kind # "object" THEN NoVersion
    ELSE IF "version" \notin DOMAIN metric.labels THEN NoVersion
    ELSE IF metric.labels["version"].kind # "string" THEN NoVersion
    ELSE [found |-> TRUE, version |-> metric.labels["version"].text]

\* HashMap::insert
Insert(map, key, value) ==
    [k \in DOMAIN map \cup {key} |-> IF k = key THEN value ELSE map[k]]

\* filter_map(..).collect() giving up at the first entry without a version.
RECURSIVE CollectUntilMalformed(_, _)
CollectUntilMalformed(entries, map) ==
    IF entries = <<>> THEN map
    ELSE LET v == VersionOf(Head(entries)) IN
         IF v.found
         THEN CollectUntilMalformed(Tail(entries),
                                    Insert(map, v.version, Head(entries).value.sample))
         ELSE map

\* filter_map(..).collect(): the entries with a version, in order, into a
\* HashMap from version to sample; a later entry replaces an earlier one.
RECURSIVE Collect(_, _)
Collect(entries, map) ==
    IF entries = <<>> THEN map
    ELSE LET v == VersionOf(Head(entries)) IN
         Collect(Tail(entries),
                 IF v.found THEN Insert(map, v.version, Head(entries).value.sample)
                 ELSE map)

NoRatios == <<>>

\* PhasedRolloutPlugin::get_failure_ratios
get_failure_ratios(response) ==
    IF response.kind = "unreachable"
    THEN [status |-> "Err", ratios |-> NoRatios, error |-> "request failed"]
    ELSE IF response.kind = "error"
    THEN [status |-> "Err", ratios |-> NoRatios, error |-> "expected result"]
    ELSE IF response.kind = "matrix"
    THEN [status |-> "Err", ratios |-> NoRatios, error |-> "expected vector"]
    ELSE [status |-> "Ok", ratios |-> Collect(response.result, NoRatios), error |-> ""]

(***************************************************************************)
(* PhasedRolloutPlugin: attach_failure_ratios, filter_by_failure_ratio and *)
(* run_internal                                                            *)
(***************************************************************************)
\* attach_failure_ratios leaving an annotation it finds and giving such a
\* release the default ratio.
attach_failure_ratios_once(graph, ratios, default_version_failure_ratio) ==
    GraphValue(
        [id \in DOMAIN graph.releases |->
            LET release == graph.releases[id] IN
            IF release.kind # "Concrete" THEN release
            ELSE [release EXCEPT !.metadata =
                    Insert(@, FAILURE_RATIO,
                           IF FAILURE_RATIO \in DOMAIN release.metadata
                           THEN default_version_failure_ratio
                           ELSE IF release.version \in DOMAIN ratios
                           THEN ratios[release.version]
                           ELSE default_version_failure_ratio)]],
        graph.edges, graph.next_id)

\* attach_failure_ratios annotating every release, the Abstract ones too.
attach_failure_ratios_every_release(graph, ratios, default_version_failure_ratio) ==
    GraphValue(
        [id \in DOMAIN graph.releases |->
            LET release == graph.releases[id] IN
            [release EXCEPT !.metadata =
                Insert(@, FAILURE_RATIO,
                       IF release.version \in DOMAIN ratios
                       THEN ratios[release.version]
                       ELSE default_version_failure_ratio)]],
        graph.edges, graph.next_id)

\* attach_failure_ratios: every Concrete release gets the ratio of its version,
\* or the default one, as metadata; what it had there before is replaced.
attach_failure_ratios(graph, ratios, default_version_failure_ratio) ==
    GraphValue(
        [id \in DOMAIN graph.releases |->
            LET release == graph.releases[id] IN
            IF release.kind # "Concrete" THEN release
            ELSE [release EXCEPT !.metadata =
                    Insert(@, FAILURE_RATIO,
                           IF release.version \in DOMAIN ratios
                           THEN ratios[release.version]
                           ELSE default_version_failure_ratio)]],
        graph.edges, graph.next_id)

HasRatio(release) == FAILURE_RATIO \in DOMAIN release.metadata

ConcreteIds(graph) == {id \in DOMAIN graph.releases : graph.releases[id].kind = "Concrete"}

\* The filter keeping a release that has no failure ratio.
FilterByFailureRatioKeepUnknown(graph, failure_ratio_threshold) ==
    LET ratio(id) == ParseF64(graph.releases[id].metadata[FAILURE_RATIO])
        to_remove == {id \in ConcreteIds(graph) :
                        /\ HasRatio(graph.releases[id])
                        /\ Gt(ratio(id).value, failure_ratio_threshold)}
        kept == RemoveAll([releases |-> graph.releases, edges |-> graph.edges, count |-> 0],
                          to_remove)
    IN IF \E id \in ConcreteIds(graph) :
             HasRatio(graph.releases[id]) /\ ratio(id).status = "Err"
       THEN [status |-> "Panic", graph |-> graph, removed |-> 0]
       ELSE [status |-> "Ok", graph |-> GraphValue(kept.releases, kept.edges, graph.next_id),
             removed |-> kept.count]

\* filter_by_failure_ratio: the Concrete releases whose ratio is above the
\* threshold, and those without a ratio, are removed and counted; unwrap()
\* panics on a ratio that is no number.
FilterByFailureRatio(graph, failure_ratio_threshold) ==
    LET ratio(id) == ParseF64(graph.releases[id].metadata[FAILURE_RATIO])
        to_remove == {id \in ConcreteIds(graph) :
                        IF HasRatio(graph.releases[id])
                        THEN Gt(ratio(id).value, failure_ratio_threshold)
                        ELSE TRUE}
        kept == RemoveAll([releases |-> graph.releases, edges |-> graph.edges, count |-> 0],
                          to_remove)
    IN IF \E id \in ConcreteIds(graph) :
             HasRatio(graph.releases[id]) /\ ratio(id).status = "Err"
       THEN [status |-> "Panic", graph |-> graph, removed |-> 0]
       ELSE [status |-> "Ok", graph |-> GraphValue(kept.releases, kept.edges, graph.next_id),
             removed |-> kept.count]

\* The keys run_internal asks the parameters for, in its order.
REQUIRED_KEYS == <<"version", "channel", "id">>

\* get_multiple_values!: every key's value, or an error for the first key
\* that is not there.
get_multiple_values(parameters, keys) ==
    LET missing == {i \in 1 .. Len(keys) : keys[i] \notin DOMAIN parameters} IN
    IF missing = {} THEN [status |-> "Ok", key |-> ""]
    ELSE [status |-> "Err", key |-> keys[Min(missing)]]

\* A call that did not return: the thread unwinds.
Panic ==
    [status |-> "Panic", io |-> InternalIO(EmptyGraph, NoParameters),
     error |-> GraphError("panic", "unwrap on an Err value")]

\* How far a call got, what it returned and what it printed on its way.
Outcome(stage, out, ratios, count) ==
    [stage |-> stage, result |-> out, ratios |-> ratios, removed |-> count]

\* The steps of run_internal after the parameters: query, attach, filter.
QueryAttachFilter(internal_io, response) ==
    LET queried == get_failure_ratios(response)
        attached == attach_failure_ratios(internal_io.graph, queried.ratios,
                                          DEFAULT_VERSION_FAILURE_RATIO)
        filtered == FilterByFailureRatio(attached, DEFAULT_VERSION_FAILURE_RATIO_THRESHOLD)
    IN IF queried.status = "Err"
       THEN Outcome("query", Err(GraphError("Error", queried.error)), NoRatios, 0)
       ELSE IF filtered.status = "Panic"
       THEN Outcome("filter", Panic, queried.ratios, 0)
       ELSE Outcome("done", Ok(InternalIO(filtered.graph, internal_io.parameters)),
                    queried.ratios, filtered.removed)

\* run_internal asking the metrics source before it looks at the parameters.
PhasedRolloutQueryFirst(internal_io, response) ==
    LET rest == QueryAttachFilter(internal_io, response)
        values == get_multiple_values(internal_io.parameters, REQUIRED_KEYS)
    IN IF rest.stage = "query" \/ values.status = "Ok" THEN rest
       ELSE Outcome("query", Err(GraphError("MissingParams", values.key)), NoRatios, 0)

\* PhasedRolloutPlugin::run_internal against a metrics source that answers
\* with response.
PhasedRollout(internal_io, response) ==
    LET values == get_multiple_values(internal_io.parameters, REQUIRED_KEYS) IN
    IF values.status = "Err"
    THEN Outcome("parameters", Err(GraphError("MissingParams", values.key)), NoRatios, 0)
    ELSE QueryAttachFilter(internal_io, response)

\* The edges of a chain through n releases.
ChainEdges(n) == [i \in 1 .. (n - 1) |-> <<i - 1, i>>]

ChainGraph(nodes) == WithEdges(WithReleases(EmptyGraph, nodes), ChainEdges(Len(nodes))).graph

\* The parameters of a request, as the plugin's test gives them.
RolloutParameters ==
    [k \in {"version", "channel", "id"} |-> IF k = "version" THEN "4.0.0-0.9" ELSE ""]

\* The graphs run_internal is called with: three releases without a ratio,
\* the third of a version the metrics source knows nothing of; and a release
\* with a ratio left from before, followed by an Abstract one.
RolloutGraphs ==
    { ChainGraph(<<Concrete("4.0.0-0.1", NoMetadata), Concrete("4.0.0-0.2", NoMetadata),
                   Concrete("4.0.0-0.3", NoMetadata)>>),
      ChainGraph(<<Concrete("4.0.0-0.1", [k \in {FAILURE_RATIO} |-> <<"a", "b", "c">>]),
                   Abstract("4.0.0-0.2")>>) }

\* The InternalIOs run_internal is called with: every graph with all the
\* parameters, and one graph with every subset of them.
RolloutIOs ==
    {InternalIO(g, RolloutParameters) : g \in RolloutGraphs}
    \cup {InternalIO(ChainGraph(<<Concrete("4.0.0-0.1", NoMetadata)>>),
                     [k \in keys |-> RolloutParameters[k]]) :
             keys \in SUBSET DOMAIN RolloutParameters}

\* The plugin before its first call.
RolloutIdle ==
    /\ queries = 0
    /\ rollout_in = InternalIO(EmptyGraph, NoParameters)
    /\ threshold = DEFAULT_VERSION_FAILURE_RATIO_THRESHOLD
    /\ version_failure_ratios = NoRatios
    /\ removed = 0
    /\ rollout_out = NoResult

InitRollout == telemetry \in Responses /\ RolloutIdle

\* The InternalIO a run has handed on, for the next run to take.
HandedOn == IF rollout_out.status = "Ok" THEN {rollout_out.io} ELSE {}

\* PhasedRolloutPlugin::run_internal, which blocks on its query: the whole
\* call, with what it prints (the ratios at line 48, the count at line 62).
PhasedRolloutPlugin_run_internal(internal_io) ==
    /\ queries < MaxQueries
    /\ LET run == PhasedRollout(internal_io, telemetry) IN
        /\ queries' = IF run.stage = "parameters" THEN queries ELSE queries + 1
        /\ version_failure_ratios' =
              IF run.stage \in {"filter", "done"} THEN run.ratios ELSE version_failure_ratios
        /\ removed' = IF run.stage = "done" THEN run.removed ELSE removed
        /\ rollout_out' = run.result
    /\ rollout_in' = internal_io
    /\ UNCHANGED <<telemetry, threshold, notRolloutVars>>

NextRollout ==
    \E internal_io \in RolloutIOs \cup HandedOn : PhasedRolloutPlugin_run_internal(internal_io)

\* The thresholds filter_by_failure_ratio is called with.
Thresholds == {Finite(0, 0), Finite(5, 1), Finite(8, 1), Finite(85, 2)}

\* The releases of the graphs it is called with: without a ratio, with each
\* sample text as ratio, with other texts for 0.8 and 0.5, and Abstract.
FilterReleases ==
    { Concrete("4.0.0-0.1", NoMetadata), Abstract("4.0.0-0.1") }
    \cup {Concrete("4.0.0-0.1", [k \in {FAILURE_RATIO} |-> s]) :
             s \in Samples \cup { <<"0", ".", "8", "0">>, <<".", "5">> }}

FilterGraphs ==
    {ChainGraph(nodes) : nodes \in UNION {[1 .. n -> FilterReleases] : n \in 0 .. MaxReleases}}

\* filter_by_failure_ratio(&mut graph, failure_ratio_threshold), called on
\* its own, once: rollout_in holds the graph before the call, rollout_out the
\* graph after it.
filter_by_failure_ratio(graph, failure_ratio_threshold) ==
    LET filtered == FilterByFailureRatio(graph, failure_ratio_threshold) IN
    /\ rollout_out.status = "Pending"
    /\ rollout_in' = InternalIO(graph, NoParameters)
    /\ threshold' = failure_ratio_threshold
    /\ removed' = filtered.removed
    /\ rollout_out' = IF filtered.status = "Panic" THEN Panic
                      ELSE Ok(InternalIO(filtered.graph, NoParameters))
    /\ UNCHANGED <<telemetry, queries, version_failure_ratios, notRolloutVars>>

NextFilter ==
    \E graph \in FilterGraphs, t \in Thresholds : filter_by_failure_ratio(graph, t)

(***************************************************************************)
(* Properties of the phased-rollout plugin                                 *)
(***************************************************************************)
\* The first of version, channel, id the parameters lack; "" when none.
FirstAbsent(parameters) ==
    IF "version" \notin DOMAIN parameters THEN "version"
    ELSE IF "channel" \notin DOMAIN parameters THEN "channel"
    ELSE IF "id" \notin DOMAIN parameters THEN "id"
    ELSE ""

\* C13: a run whose parameters lack one of version, channel, id returns the
\* missing-key error that names the first absent key, and the call has sent
\* no query to the metrics source and printed neither ratios nor a count of
\* removed releases: it ended before the graph was annotated or pruned.
C13_MissingKeyFailsFirst ==
    [][FirstAbsent(rollout_in'.parameters) # "" =>
          /\ rollout_out' =
                Err(GraphError("MissingParams", FirstAbsent(rollout_in'.parameters)))
          /\ UNCHANGED <<queries, version_failure_ratios, removed>>]_vars

\* A run without channel and id, against a metrics source that is
\* unreachable, has failed naming channel, and no query was sent.
C13_Witness ==
    /\ rollout_out.status = "Err"
    /\ rollout_out.error.detail = "channel"
    /\ DOMAIN rollout_in.parameters = {"version"}
    /\ telemetry.kind = "unreachable"
    /\ queries = 0

\* The releases the filter was called on and those it left.
Before == rollout_in.graph.releases

After == rollout_out.io.graph.releases

Returned == rollout_out.status = "Ok"

\* The ratio of release id before the call, as a number.
RatioBefore(id) == ParseF64(Before[id].metadata[FAILURE_RATIO])

IsNumber(id) ==
    /\ Before[id].kind = "Concrete"
    /\ HasRatio(Before[id])
    /\ RatioBefore(id).status = "Ok"
    /\ RatioBefore(id).value.kind = "finite"

\* ratio - threshold, both brought to the same denominator.
Excess(id) ==
    RatioBefore(id).value.n * Pow10(threshold.d) - threshold.n * Pow10(RatioBefore(id).value.d)

\* C14: when filter_by_failure_ratio returns, a Concrete release whose ratio
\* is equal to the threshold is still in the graph and one whose ratio is
\* greater than the threshold is not, for every threshold and ratio.
C14_StrictlyGreaterRemoved ==
    Returned =>
        \A id \in DOMAIN Before : IsNumber(id) =>
            /\ Excess(id) = 0 => id \in DOMAIN After /\ After[id] = Before[id]
            /\ Excess(id) > 0 => id \notin DOMAIN After

\* Called with threshold 0.8 on a release of ratio "0.80" and one of ratio
\* "0.9", the filter has kept the first and removed the second.
C14_Witness ==
    /\ Returned
    /\ threshold = Finite(8, 1)
    /\ \E id \in DOMAIN After :
          /\ IsNumber(id)
          /\ Before[id].metadata[FAILURE_RATIO] = <<"0", ".", "8", "0">>
    /\ \E id \in DOMAIN Before \ DOMAIN After :
          /\ IsNumber(id)
          /\ Before[id].metadata[FAILURE_RATIO] = <<"0", ".", "9">>

\* C15: when filter_by_failure_ratio returns, a Concrete release that had no
\* failure_ratio entry is not in the graph any more, whatever the threshold.
C15_UnknownRatioRemoved ==
    Returned =>
        \A id \in DOMAIN Before :
            Before[id].kind = "Concrete" /\ ~HasRatio(Before[id]) => id \notin DOMAIN After

\* Called with the highest threshold on a release without a ratio and one of
\* ratio 0.8, the filter has removed the first and kept the second.
C15_Witness ==
    /\ Returned
    /\ threshold = Finite(85, 2)
    /\ removed = 1
    /\ \E id \in DOMAIN Before \ DOMAIN After :
          Before[id].kind = "Concrete" /\ ~HasRatio(Before[id])
    /\ \E id \in DOMAIN After : IsNumber(id)

\* The last call was a run that got an answer with a vector from the
\* metrics source.
RanOnVector ==
    /\ rollout_out.status # "Pending"
    /\ FirstAbsent(rollout_in.parameters) = ""
    /\ telemetry.kind = "vector"

\* The entry has a metric that is an object with a version that is a string.
WellFormed(entry) ==
    /\ entry.metric.kind = "object"
    /\ "version" \in DOMAIN entry.metric.labels
    /\ entry.metric.labels["version"].kind = "string"

\* The positions of the entries that report on the version.
EntriesFor(version) ==
    {i \in 1 .. Len(telemetry.result) :
        /\ WellFormed(telemetry.result[i])
        /\ telemetry.result[i].metric.labels["version"].text = version}

Max(S) == CHOOSE x \in S : \A y \in S : y <= x

\* The ratio the metrics source gives for the version: the one of its last
\* entry for it.
Reported(version) == telemetry.result[Max(EntriesFor(version))].value.sample

\* The ratio a run attaches to release id of its input.
RatioAttached(id) ==
    IF EntriesFor(Before[id].version) = {} THEN DEFAULT_VERSION_FAILURE_RATIO
    ELSE Reported(Before[id].version)

\* C16: a run in which a Concrete release gets a failure_ratio that is no
\* number returns Ok, and that release is not in the graph it returns.
C16_UnparseableRemoved ==
    RanOnVector =>
        \A id \in DOMAIN Before :
            Before[id].kind = "Concrete" /\ ParseF64(RatioAttached(id)).status = "Err" =>
                Returned /\ id \notin DOMAIN After

\* C17: a run on the InternalIO the run before it returned, against the same
\* state of the metrics source, returns that InternalIO again (the same
\* releases with the same failure_ratio metadata) and removes no release.
C17_SecondRunChangesNothing ==
    [][Returned /\ rollout_in' = rollout_out.io =>
          /\ rollout_out' = rollout_out
          /\ removed' = 0
          /\ UNCHANGED <<telemetry, threshold, version_failure_ratios>>]_vars

\* A second run has returned its input, in which one release is left of the
\* three the first run was called with.
C17_Witness ==
    /\ Returned
    /\ queries = 2
    /\ rollout_in = rollout_out.io
    /\ removed = 0
    /\ Cardinality(ConcreteIds(rollout_out.io.graph)) = 1
    /\ rollout_out.io.graph.next_id = 3

\* The edges of the graph a run was called with and of the one it returned.
EdgesBefore == rollout_in.graph.edges

EdgesAfter == rollout_out.io.graph.edges

\* C24: a run that returns Ok returns the parameters it was given; every
\* release of its output is a release of its input, of the same kind and
\* version; every Abstract release of the input is in the output as it was,
\* without metadata added; and every edge of the output is an edge of the
\* input between two releases of the output.
C24_RunOnlyPrunes ==
    Returned =>
        /\ rollout_out.io.parameters = rollout_in.parameters
        /\ DOMAIN After \subseteq DOMAIN Before
        /\ \A id \in DOMAIN After :
              /\ After[id].kind = Before[id].kind
              /\ After[id].version = Before[id].version
        /\ \A id \in DOMAIN Before :
              Before[id].kind = "Abstract" => id \in DOMAIN After /\ After[id] = Before[id]
        /\ EdgesAfter \subseteq EdgesBefore
        /\ \A e \in EdgesAfter : e[1] \in DOMAIN After /\ e[2] \in DOMAIN After

\* A run has returned a graph in which the Abstract release of its input is
\* left alone: the Concrete one before it, and the edge between them, are
\* gone.
C24_Witness ==
    /\ Returned
    /\ RanOnVector
    /\ removed = 1
    /\ rollout_out.io.parameters = RolloutParameters
    /\ \E id \in DOMAIN After : After[id].kind = "Abstract"
    /\ \E id \in DOMAIN Before \ DOMAIN After : Before[id].kind = "Concrete"
    /\ EdgesBefore # {}
    /\ EdgesAfter = {}

\* value <= 0.8, for the value a ratio text writes; no text that is not a
\* number and no NaN is.
WithinDefaultThreshold(text) ==
    LET parsed == ParseF64(text) IN
    /\ parsed.status = "Ok"
    /\ \/ parsed.value.kind = "inf" /\ parsed.value.n < 0
       \/ parsed.value.kind = "finite"
          /\ parsed.value.n * 10 <= 8 * Pow10(parsed.value.d)

\* C18: after a run that returned Ok, a Concrete release of its input is in
\* the graph it returned exactly when the metrics source gave a ratio for its
\* version and that ratio is <= 0.8.
C18_RetainedIffWithinThreshold ==
    Returned /\ RanOnVector =>
        \A id \in DOMAIN Before : Before[id].kind = "Concrete" =>
            (id \in DOMAIN After
                <=> /\ EntriesFor(Before[id].version) # {}
                    /\ WithinDefaultThreshold(Reported(Before[id].version)))

\* C19: the ratios a run works with are those of the well-formed entries of
\* the answer, one for every version they report on, and the run returns
\* what it returns against the answer without its other entries: an entry
\* whose metric is no object, has no version or has a version that is no
\* string is dropped and does not make the run fail.
C19_MalformedEntriesDropped ==
    RanOnVector =>
        /\ rollout_out.status # "Err"
        /\ DOMAIN version_failure_ratios =
              {v \in TelemetryVersions : EntriesFor(v) # {}}
        /\ \A v \in DOMAIN version_failure_ratios : version_failure_ratios[v] = Reported(v)
        /\ rollout_out =
              PhasedRollout(rollout_in,
                            QueryVector(SelectSeq(telemetry.result, WellFormed))).result

\* A run has returned a graph with a release in it against an answer whose
\* first entry has no version and whose second entry is well formed.
C19_Witness ==
    /\ RanOnVector
    /\ Returned
    /\ Len(telemetry.result) = 2
    /\ ~WellFormed(telemetry.result[1])
    /\ telemetry.result[1].metric.kind = "object"
    /\ WellFormed(telemetry.result[2])
    /\ DOMAIN After # {}

(***************************************************************************)
(* Persistence of the node cache: new, load_values, persist_value, verify  *)
(* and update_with                                                         *)
(***************************************************************************)
DownloadModes ==
    {"VerifyExistingOnly", "VerifyExistingAddNew", "AddNew", "AddNewOverwriteExisting"}

\* Option<Release>: no release, or one.
None == [kind |-> "None"]

Some(release) == [kind |-> "Some", release |-> release]

CacheValues == {None, Some("4.0.0-0.1")}

\* The manifestrefs of an update: two of the form algo:hash and one without
\* a colon.
Manifestrefs == {<<"s", ":", "1">>, <<"s", ":", "2">>, <<"s", "1">>}

\* str::split: the parts of the text between the separators.
RECURSIVE Split(_, _)
Split(text, separator) ==
    LET at == {i \in 1 .. Len(text) : text[i] = separator} IN
    IF at = {} THEN <<text>>
    ELSE <<SubSeq(text, 1, Min(at) - 1)>>
             \o Split(SubSeq(text, Min(at) + 1, Len(text)), separator)

\* format!("{}:{}", algo, filename)
Manifestref(algo, filename) == algo \o <<":">> \o filename

\* serde_json::to_writer and from_reader of an Option<Release>.
ToJson(value) ==
    IF value.kind = "None" THEN [json |-> "null", fields |-> <<>>]
    ELSE [json |-> "object", fields |-> <<value.release>>]

FromJson(content) == IF content.json = "null" THEN None ELSE Some(content.fields[1])

\* A directory without files, and a cache without entries.
NoFiles == <<>>

NoEntries == <<>>

\* The files a Persistence finds in its directory when it is constructed.
InitialDirectories ==
    { NoFiles,
      [path \in {<<(<<"s">>), (<<"1">>)>>} |-> ToJson(Some("4.0.0-0.1"))],
      [path \in {<<(<<"s">>), (<<"1">>)>>} |-> ToJson(None)] }

\* load_values: every file of every algorithm directory becomes an entry.
load_values(files) ==
    [manifestref \in {Manifestref(path[1], path[2]) : path \in DOMAIN files} |->
        LET path == CHOOSE p \in DOMAIN files : Manifestref(p[1], p[2]) = manifestref
        IN FromJson(files[path])]

PersistenceOk == [status |-> "Ok", at |-> <<>>, error |-> ""]

PersistenceErr(manifestref, error) == [status |-> "Err", at |-> manifestref, error |-> error]

PersistencePanic(manifestref) ==
    [status |-> "Panic", at |-> manifestref, error |-> "assertion failed"]

\* The files that cannot be opened for writing: none, or the second one.
Unwritable == {{}, {<<(<<"s">>), (<<"2">>)>>}}

\* No update_with call yet.
NoUpdate ==
    [updated_cache |-> NoEntries, cache |-> NoEntries, directory |-> NoFiles,
     result |-> [status |-> "Pending", at |-> <<>>, error |-> ""]]

\* Persistence::new: the cache is loaded from the directory unless the mode
\* is AddNewOverwriteExisting.
new(files, download_mode) ==
    /\ mode = download_mode
    /\ unwritable \in Unwritable
    /\ directory = files
    /\ cache = IF download_mode # "AddNewOverwriteExisting" THEN load_values(files)
               ELSE NoEntries
    /\ updates = 0
    /\ updated = NoUpdate

\* persist_value: the cached value of the manifestref is written to the file
\* hash of the directory algo; a manifestref that is not algo:hash, and a
\* file that cannot be opened, end it with an error.
persist_value(entries, files, manifestref, unopenable) ==
    LET parts == Split(manifestref, ":") IN
    IF manifestref \notin DOMAIN entries
    THEN [result |-> PersistenceErr(manifestref, "Cache value missing"), files |-> files]
    ELSE IF Len(parts) # 2
    THEN [result |-> PersistenceErr(manifestref, "manifestref is not in algo:hash format"),
          files |-> files]
    ELSE IF <<parts[1], parts[2]>> \in unopenable
    THEN [result |-> PersistenceErr(manifestref, "Opening"), files |-> files]
    ELSE [result |-> PersistenceOk,
          files |-> Insert(files, <<parts[1], parts[2]>>, ToJson(entries[manifestref]))]

\* verify that finds every update consistent.
verify_nothing(entries, updated_cache) == PersistenceOk

\* verify: an error when the cache and the update have a key in common with
\* different values.
verify(entries, updated_cache) ==
    LET differ_from_update ==
            {manifestref \in DOMAIN updated_cache \cap DOMAIN entries :
                entries[manifestref] # updated_cache[manifestref]}
    IN IF differ_from_update # {}
       THEN PersistenceErr(CHOOSE m \in differ_from_update : TRUE, "value mismatch")
       ELSE PersistenceOk

\* What update_with has made of the cache and the directory, and its result.
Updated(entries, files, outcome) == [cache |-> entries, directory |-> files, result |-> outcome]

\* The closure with an AddNew that leaves an existing entry as it is.
process_entry_keep_existing(download_mode, state, manifestref, updated_value, unopenable) ==
    LET inserted == Insert(state.cache, manifestref, updated_value)
        persisted == persist_value(inserted, state.directory, manifestref, unopenable)
    IN IF download_mode = "AddNewOverwriteExisting"
       THEN Updated(inserted, persisted.files, persisted.result)
       ELSE IF manifestref \in DOMAIN state.cache
       THEN IF download_mode = "AddNew" \/ state.cache[manifestref] = updated_value
            THEN state
            ELSE Updated(state.cache, state.directory, PersistencePanic(manifestref))
       ELSE Updated(inserted, persisted.files, persisted.result)

\* The closure update_with runs on every entry of the update: the entry is
\* inserted and persisted; in VerifyExistingAddNew only when the cache has
\* no entry for the manifestref.
process_entry(download_mode, state, manifestref, updated_value, unopenable) ==
    LET inserted == Insert(state.cache, manifestref, updated_value)
        persisted == persist_value(inserted, state.directory, manifestref, unopenable)
    IN IF download_mode \in {"AddNew", "AddNewOverwriteExisting"}
       THEN Updated(inserted, persisted.files, persisted.result)
       ELSE IF manifestref \in DOMAIN state.cache
       THEN IF state.cache[manifestref] = updated_value
            THEN state
            ELSE Updated(state.cache, state.directory, PersistencePanic(manifestref))
       ELSE Updated(inserted, persisted.files, persisted.result)

\* try_for_each: the entries in the order the map gives them, up to the
\* first that does not return Ok.
RECURSIVE try_for_each(_, _, _, _, _)
try_for_each(download_mode, state, updated_cache, order, unopenable) ==
    IF order = <<>> \/ state.result.status # "Ok" THEN state
    ELSE try_for_each(download_mode,
                      process_entry(download_mode, state, Head(order),
                                    updated_cache[Head(order)], unopenable),
                      updated_cache, Tail(order), unopenable)

\* update_with as a function of the mode, the cache, the files, the update,
\* the order its map iterates in and the files that cannot be opened.
UpdateWith(download_mode, entries, files, updated_cache, order, unopenable) ==
    LET verified == verify(entries, updated_cache) IN
    IF download_mode = "VerifyExistingOnly" THEN Updated(entries, files, verified)
    ELSE IF download_mode = "VerifyExistingAddNew" /\ verified.status # "Ok"
    THEN Updated(entries, files, verified)
    ELSE try_for_each(download_mode, Updated(entries, files, PersistenceOk),
                      updated_cache, order, unopenable)

\* The updates: a value for each of some manifestrefs.
Updates == UNION {[keys -> CacheValues] : keys \in SUBSET Manifestrefs}

\* The orders a map with these keys can iterate in.
Orders(keys) ==
    {order \in [1 .. Cardinality(keys) -> keys] :
        \A i, j \in 1 .. Cardinality(keys) : order[i] = order[j] => i = j}

\* Persistence::update_with
update_with(updated_cache) ==
    /\ updates < MaxUpdates
    /\ \E order \in Orders(DOMAIN updated_cache) :
          LET done == UpdateWith(mode, cache, directory, updated_cache, order, unwritable) IN
          /\ cache' = done.cache
          /\ directory' = done.directory
          /\ updated' = [updated_cache |-> updated_cache, cache |-> cache,
                         directory |-> directory, result |-> done.result]
    /\ updates' = updates + 1
    /\ UNCHANGED <<mode, unwritable, notPersistenceVars>>

InitPersistence ==
    \E files \in InitialDirectories, download_mode \in DownloadModes : new(files, download_mode)

NextPersistence == \E updated_cache \in Updates : update_with(updated_cache)

(***************************************************************************)
(* Properties of the node cache                                            *)
(***************************************************************************)
\* The update of the last call differs from the cache it found on a key
\* they have in common.
Inconsistent ==
    \E manifestref \in DOMAIN updated.updated_cache \cap DOMAIN updated.cache :
        updated.cache[manifestref] # updated.updated_cache[manifestref]

\* The same, for the call a step makes.
InconsistentStep ==
    \E manifestref \in DOMAIN updated'.updated_cache \cap DOMAIN cache :
        cache[manifestref] # updated'.updated_cache[manifestref]

\* The file of a manifestref of the form algo:hash.
PathOf(manifestref) == <<Split(manifestref, ":")[1], Split(manifestref, ":")[2]>>

\* The files a step has created or written.
Written == {path \in DOMAIN directory' : path \notin DOMAIN directory
                                         \/ directory'[path] # directory[path]}

\* What a call leaves of the cache and the directory it found, by C26.
VerificationStep ==
    LET update == updated'.updated_cache
        absent == DOMAIN update \ DOMAIN cache
    IN /\ \A manifestref \in DOMAIN cache :
              manifestref \in DOMAIN cache' /\ cache'[manifestref] = cache[manifestref]
       /\ \A path \in DOMAIN directory :
              path \in DOMAIN directory' /\ directory'[path] = directory[path]
       /\ mode = "VerifyExistingOnly" => cache' = cache /\ directory' = directory
       /\ InconsistentStep =>
              updated'.result.status = "Err" /\ cache' = cache /\ directory' = directory
       /\ updated'.result.status # "Panic"
       /\ DOMAIN cache' \ DOMAIN cache \subseteq absent
       /\ \A manifestref \in DOMAIN cache' \ DOMAIN cache :
              cache'[manifestref] = update[manifestref]
       /\ \A path \in Written :
              \E manifestref \in absent :
                  /\ Len(Split(manifestref, ":")) = 2
                  /\ path = PathOf(manifestref)
                  /\ directory'[path] = ToJson(update[manifestref])
       /\ mode = "VerifyExistingAddNew" /\ updated'.result.status = "Ok" =>
              \A manifestref \in absent :
                  /\ manifestref \in DOMAIN cache'
                  /\ PathOf(manifestref) \in DOMAIN directory'
                  /\ directory'[PathOf(manifestref)] = ToJson(update[manifestref])

\* C26: in the verification modes no call changes the value the cache has
\* under a key or the content of a file; in VerifyExistingOnly a call leaves
\* the cache and the directory as they are; in VerifyExistingAddNew a call
\* with an update that differs from the cache on a common key returns an
\* error and leaves both as they are, and a call with a consistent update
\* adds to the cache only keys it did not have, with the update's value,
\* writes only the files of such keys, and adds and writes all of them when
\* it returns Ok.
C26_VerificationKeepsValues ==
    [][updates' = updates + 1 /\ mode \in {"VerifyExistingOnly", "VerifyExistingAddNew"} =>
          VerificationStep]_vars

\* In VerifyExistingAddNew a second call, with an update that has another
\* value for a key the first call added, has returned an error and has left
\* the cache and the directory as the first call left them.
C26_Witness ==
    /\ mode = "VerifyExistingAddNew"
    /\ updates = 2
    /\ Inconsistent
    /\ \E manifestref \in DOMAIN updated.updated_cache \cap DOMAIN cache :
          /\ cache[manifestref] # updated.updated_cache[manifestref]
          /\ \A files \in InitialDirectories : manifestref \notin DOMAIN load_values(files)
          /\ Len(Split(manifestref, ":")) = 2
          /\ PathOf(manifestref) \in DOMAIN directory
          /\ directory[PathOf(manifestref)] = ToJson(cache[manifestref])
    /\ updated.result.status = "Err"
    /\ updated.result.error = "value mismatch"
    /\ cache = updated.cache
    /\ directory = updated.directory
    /\ DOMAIN directory # {}
    /\ \E manifestref \in DOMAIN updated.updated_cache : manifestref \notin DOMAIN cache

\* The other of the two modes that add without verifying.
OtherMode(download_mode) ==
    IF download_mode = "AddNew" THEN "AddNewOverwriteExisting" ELSE "AddNew"

\* What a call makes of the cache and the directory it found, by C27.
AddingStep ==
    LET update == updated'.updated_cache
        outcome == updated'.result
    IN /\ \E order \in Orders(DOMAIN update) :
              Updated(cache', directory', outcome)
                  = UpdateWith(OtherMode(mode), cache, directory, update, order, unwritable)
       /\ outcome.status \in {"Ok", "Err"}
       /\ \A manifestref \in DOMAIN cache \ DOMAIN update :
              manifestref \in DOMAIN cache' /\ cache'[manifestref] = cache[manifestref]
       /\ DOMAIN cache' \subseteq DOMAIN cache \cup DOMAIN update
       /\ \A path \in Written :
              \E manifestref \in DOMAIN update :
                  /\ Len(Split(manifestref, ":")) = 2
                  /\ path = PathOf(manifestref)
                  /\ directory'[path] = ToJson(update[manifestref])
       /\ \A path \in DOMAIN directory : path \in DOMAIN directory'
       /\ outcome.status = "Ok" =>
              \A manifestref \in DOMAIN update :
                  /\ manifestref \in DOMAIN cache'
                  /\ cache'[manifestref] = update[manifestref]
                  /\ Len(Split(manifestref, ":")) = 2
                  /\ PathOf(manifestref) \in DOMAIN directory'
                  /\ directory'[PathOf(manifestref)] = ToJson(update[manifestref])
       /\ outcome.status = "Err" =>
              /\ outcome.at \in DOMAIN update
              /\ cache'[outcome.at] = update[outcome.at]
              /\ \/ Len(Split(outcome.at, ":")) # 2
                 \/ outcome.error = "Opening"
              /\ \A manifestref \in DOMAIN update :
                    \/ manifestref \in DOMAIN cache'
                          /\ cache'[manifestref] = update[manifestref]
                    \/ manifestref \notin DOMAIN cache /\ manifestref \notin DOMAIN cache'
                    \/ manifestref \in DOMAIN cache /\ manifestref \in DOMAIN cache'
                          /\ cache'[manifestref] = cache[manifestref]

\* C27: in AddNew and in AddNewOverwriteExisting a call does to the cache
\* and the directory what a call in the other of the two modes can do with
\* the same update; a call that returns Ok leaves every
\* key of the update with the update's value, in the cache and in its file,
\* and every other key and file as it was; a call that returns an error
\* stopped at a key of the update whose value it has put into the cache,
\* and has written no file that holds anything but the update's value.
C27_AddNewOverwrites ==
    [][updates' = updates + 1 /\ mode \in {"AddNew", "AddNewOverwriteExisting"} =>
          AddingStep]_vars

\* In AddNew a call has returned Ok after it has put another value in the
\* place of an entry of the cache and of the content of its file, and has
\* left an entry that is not in the update as it was.
C27_Witness ==
    /\ mode = "AddNew"
    /\ updated.result.status = "Ok"
    /\ \E manifestref \in DOMAIN updated.updated_cache \cap DOMAIN updated.cache :
          /\ updated.cache[manifestref] # updated.updated_cache[manifestref]
          /\ cache[manifestref] = updated.updated_cache[manifestref]
          /\ PathOf(manifestref) \in DOMAIN updated.directory
          /\ directory[PathOf(manifestref)] # updated.directory[PathOf(manifestref)]
          /\ directory[PathOf(manifestref)] = ToJson(updated.updated_cache[manifestref])
    /\ \E manifestref \in DOMAIN updated.cache \ DOMAIN updated.updated_cache :
          cache[manifestref] = updated.cache[manifestref]

(***************************************************************************)
(* Specifications                                                          *)
(***************************************************************************)
\* The plugin instance of a behaviour that runs no graph fetch.
FetchNotInUse == try_new(DEFAULT_UPSTREAM_URL)

\* The Graph instance of a behaviour that calls no Graph operation.
GraphNotInUse == InitGraph

\* The settings of a behaviour that builds no pipeline.
PipeNotInUse ==
    /\ policies = <<>>
    /\ registry = {}
    /\ pipeline = NotBuilt
    /\ rq = [q \in Requests |-> IdleRequest]

\* The plugin of a behaviour that runs no phased rollout.
RolloutNotInUse == telemetry = QueryVector(<<>>) /\ RolloutIdle

\* The node cache of a behaviour that downloads no nodes.
PersistenceNotInUse == new(NoFiles, "VerifyExistingOnly") /\ unwritable = {}

InitSpecGraph ==
    InitGraph /\ FetchNotInUse /\ PipeNotInUse /\ RolloutNotInUse /\ PersistenceNotInUse

SpecGraph == InitSpecGraph /\ [][NextGraph]_vars

InitSpecFetch ==
    InitFetch /\ GraphNotInUse /\ PipeNotInUse /\ RolloutNotInUse /\ PersistenceNotInUse

SpecFetch == InitSpecFetch /\ [][NextFetch]_vars

\* AppSettings.upstream, which the default policies hand to their plugins.
SettingsUpstreams == {DEFAULT_UPSTREAM_URL, ""}

InitSpecPipe ==
    /\ InitPipe
    /\ \E u \in SettingsUpstreams : try_new(u)
    /\ GraphNotInUse
    /\ RolloutNotInUse
    /\ PersistenceNotInUse

SpecPipe == InitSpecPipe /\ [][NextPipe]_vars

InitSpecShared ==
    /\ InitShared
    /\ try_new(DEFAULT_UPSTREAM_URL)
    /\ GraphNotInUse
    /\ RolloutNotInUse
    /\ PersistenceNotInUse

SpecShared == InitSpecShared /\ [][NextShared]_vars

InitSpecPersistence ==
    InitPersistence /\ GraphNotInUse /\ FetchNotInUse /\ PipeNotInUse /\ RolloutNotInUse

SpecPersistence == InitSpecPersistence /\ [][NextPersistence]_vars

InitSpecRollout ==
    InitRollout /\ GraphNotInUse /\ FetchNotInUse /\ PipeNotInUse /\ PersistenceNotInUse

SpecRollout == InitSpecRollout /\ [][NextRollout]_vars

InitSpecFilter ==
    /\ RolloutNotInUse
    /\ GraphNotInUse
    /\ FetchNotInUse
    /\ PipeNotInUse
    /\ PersistenceNotInUse

SpecFilter == InitSpecFilter /\ [][NextFilter]_vars

====
